---- MODULE Spec2Model ----
(***************************************************************************)
(* DL/T 645-2007 meter protocol engine of smart-meters: address codec,     *)
(* frame builder, frame parsers and the masking convention, modelled from  *)
(* dlt645_read.py, dlt645_read_1.py and dlt645_single_phase.py.            *)
(*                                                                         *)
(* Bytes are integers 0..255, byte strings are sequences of them.  Python  *)
(* indices are kept: At(r, i) is r[i], Slice(r, a, b) is r[a:b].  A        *)
(* character is a one-character string, a str is a sequence of them.       *)
(***************************************************************************)
EXTENDS Integers, Sequences, FiniteSets, TLC

VARIABLES
    addr_in,      \* the address string given to DLT645Protocol(...)
    addr_status,  \* "unset", "ok" or "ValueError": outcome of _format_address
    address,      \* self.address: the 6 wire bytes (<<>> while not computed)
    req,          \* arguments of the last _build_frame call
    frame,        \* outcome of the last _build_frame call
    response,     \* bytes handed to _parse_response
    origin,       \* where response comes from: "none", "echo" or "meter"
    ncorrupt,     \* number of line corruptions applied to response
    flipped,      \* position of the single flipped bit, or NoFlip
    parsed,       \* outcome of _parse_response, first class of dlt645_read.py
    parsed1,      \* outcome of _parse_response of dlt645_read_1.py
    masked,       \* outcome of _add_33h followed by _sub_33h on req's data
    dec,          \* the last decoder call: function, payload, result
    variant,      \* which of the three transports the object is
    pc,           \* where the client or _send_frame stands
    ser,          \* self.ser: "none", "open" or "closed"
    ncalls,       \* calls made on the object so far
    nreads,       \* read_data calls made so far
    nwrites,      \* self.ser.write calls made so far
    attempt,      \* attempt of the running _send_frame call
    ops,          \* what the running attempt has done, in order
    tx,           \* the byte strings the running attempt has written
    inbuf,        \* bytes waiting in the input buffer (in_waiting)
    pending,      \* chunks the meter has sent that have not arrived yet
    rxbuf,        \* response, the bytearray of the accumulation loop
    chunks,       \* the chunks the loop has read, in order
    left,         \* ticks until timeout
    quiet,        \* ticks since the loop began or last read a chunk
    result,       \* what the last read_data call gave its caller
    raised,       \* the exception raised inside the last read_data call
    sent,         \* the frames the running read_data call has written
    pauses,       \* waits between attempts made by the running call
    pace,         \* milliseconds read_data slept after its exchange
    cfg,          \* settings of the serial.Serial made by connect
    stale,        \* bytes that waited unread when the frame was written
    phase,        \* where the session function stands
    log,          \* per identifier read: how the read ended, what was kept
    cands,        \* addresses read_meter_dlt645 has still to try
    outcome       \* what the session function gave its caller

\* variables of the codec
cvars == <<addr_in, addr_status, address, req, frame, response, origin,
           ncorrupt, flipped, parsed, parsed1, masked>>

\* variables of the value decoders
dvars == <<dec>>

\* variables of the transport and of the session
svars == <<variant, pc, ser, ncalls, nreads, nwrites, attempt, ops, tx, inbuf, pending,
           rxbuf, chunks, left, quiet, result, raised, sent, pauses, pace, cfg,
           stale>>

\* variables of the session functions
rvars == <<phase, log, cands, outcome>>

vars == <<cvars, dvars, svars, rvars>>

\* the session function has not returned
NoOutcome == [value |-> "none", readings |-> <<>>]

\* no serial.Serial was made
NoSettings == [baudrate |-> 0, bytesize |-> 0, parity |-> "none", stopbits |-> 0]

\* no session is running
NoSession ==
    /\ variant = "read"
    /\ pc = "none"
    /\ ser = "none"
    /\ ncalls = 0
    /\ nreads = 0
    /\ nwrites = 0
    /\ attempt = 0
    /\ ops = <<>>
    /\ tx = <<>>
    /\ inbuf = <<>>
    /\ pending = <<>>
    /\ rxbuf = <<>>
    /\ chunks = <<>>
    /\ left = 0
    /\ quiet = 0
    /\ result = "none"
    /\ raised = "none"
    /\ sent = <<>>
    /\ pauses = 0
    /\ pace = 0
    /\ cfg = NoSettings
    /\ stale = <<>>
    /\ phase = "none"
    /\ log = <<>>
    /\ cands = <<>>
    /\ outcome = NoOutcome

---------------------------------------------------------------------------
(* Bounds of the model                                                     *)

\* longest generated address string (the source's own 12-character
\* addresses are added to these)
MaxAddrLen == 2

\* longest payload given to _build_frame or carried by a meter reply
MaxPayLen == 1

\* number of byte-level corruptions the line may apply to one response
MaxCorrupt == 1

---------------------------------------------------------------------------
(* Program constants                                                       *)

FRAME_START == 104

FRAME_END == 22

CMD_READ_DATA == 17

CMD_READ_MORE == 18

\* the +0x33 of _add_33h / _sub_33h
H33 == 51

\* fixed overhead of a frame: 12 + length
FrameOverhead == 12

\* number of characters of a formatted address
AddrDigits == 12

\* A data identifier is a 32-bit integer, written as its four base-256
\* digits, most significant first: 0x02010100 is <<2, 1, 1, 0>>.
DI_TOTAL_ACTIVE_ENERGY == <<0, 0, 0, 0>>

DI_VOLTAGE == <<2, 1, 1, 0>>

\* data_id is None
NoId == <<>>

---------------------------------------------------------------------------
(* Python sequence helpers                                                 *)

Min(a, b) == IF a < b THEN a ELSE b

Max(a, b) == IF a > b THEN a ELSE b

At(r, i) == r[i + 1]

\* r[a:b] with 0 <= a: the slice is cut at the end of r, never an error
Slice(r, a, b) == SubSeq(r, a + 1, Min(b, Len(r)))

Reversed(s) == [i \in 1..Len(s) |-> s[Len(s) + 1 - i]]

RECURSIVE Sum(_)
Sum(s) == IF s = <<>> THEN 0 ELSE s[1] + Sum(Tail(s))

RECURSIVE Pow2(_)
Pow2(k) == IF k = 0 THEN 1 ELSE 2 * Pow2(k - 1)

\* bytes(...) accepts only values in range(0, 256)
IsByteSeq(s) == \A i \in 1..Len(s) : s[i] >= 0 /\ s[i] <= 255

\* all sequences over S of length 0..n
SeqsUpTo(S, n) == UNION {[1..k -> S] : k \in 0..n}

---------------------------------------------------------------------------
(* AddressCodec: _format_address                                           *)

HexDigits == {"0","1","2","3","4","5","6","7","8","9",
              "A","B","C","D","E","F","a","b","c","d","e","f"}

HexVal(c) ==
    CASE c = "0" -> 0  [] c = "1" -> 1  [] c = "2" -> 2  [] c = "3" -> 3
      [] c = "4" -> 4  [] c = "5" -> 5  [] c = "6" -> 6  [] c = "7" -> 7
      [] c = "8" -> 8  [] c = "9" -> 9
      [] c \in {"A", "a"} -> 10  [] c \in {"B", "b"} -> 11
      [] c \in {"C", "c"} -> 12  [] c \in {"D", "d"} -> 13
      [] c \in {"E", "e"} -> 14  [] c \in {"F", "f"} -> 15
      [] OTHER -> -1

IsSpace(c) == c = " "

IsSign(c) == c \in {"+", "-"}

Zeros(n) == [i \in 1..n |-> "0"]

\* str.zfill(width): zeros go after a leading sign; a string already
\* that long is returned unchanged
zfill(s, width) ==
    IF Len(s) >= width THEN s
    ELSE IF Len(s) > 0 /\ IsSign(s[1])
         THEN <<s[1]>> \o Zeros(width - Len(s)) \o Tail(s)
         ELSE Zeros(width - Len(s)) \o s

\* value of a run of digits in base 16; BadInt when the run is empty or
\* holds anything but hexadecimal digits (an underscore is only legal
\* between two digits, which a run of at most two characters cannot have)
BadInt == -1000

RECURSIVE DigitsValue(_, _)
DigitsValue(s, acc) ==
    IF s = <<>> THEN acc
    ELSE IF HexVal(s[1]) < 0 THEN BadInt
    ELSE DigitsValue(Tail(s), 16 * acc + HexVal(s[1]))

RECURSIVE LStrip(_)
LStrip(s) == IF s # <<>> /\ IsSpace(s[1]) THEN LStrip(Tail(s)) ELSE s

Strip(s) == Reversed(LStrip(Reversed(LStrip(s))))

\* int(text, 16): surrounding whitespace is dropped, one sign is allowed
IntBase16(text) ==
    LET t    == Strip(text)
        neg  == t # <<>> /\ t[1] = "-"
        body == IF t # <<>> /\ IsSign(t[1]) THEN Tail(t) ELSE t
        v    == IF body = <<>> THEN BadInt ELSE DigitsValue(body, 0)
    IN  IF v = BadInt THEN BadInt ELSE IF neg THEN 0 - v ELSE v

\* the loop of _format_address: int(addr[i:i+2], 16) appended for
\* i = 0, 2, .., 10; int() or bytearray.append() raise ValueError
PairValues(addr) ==
    [p \in 1..(AddrDigits \div 2) |->
        IntBase16(Slice(addr, 2 * (p - 1), 2 * (p - 1) + 2))]

format_address_unreversed(addr) ==
    LET vals == PairValues(zfill(addr, AddrDigits))
    IN  IF IsByteSeq(vals) THEN [status |-> "ok", bytes |-> vals]
        ELSE [status |-> "ValueError", bytes |-> <<>>]

_format_address(addr) ==
    LET vals == PairValues(zfill(addr, AddrDigits))
    IN  IF IsByteSeq(vals) THEN [status |-> "ok", bytes |-> Reversed(vals)]
        ELSE [status |-> "ValueError", bytes |-> <<>>]

---------------------------------------------------------------------------
(* Masking: _add_33h / _sub_33h.  bytes([...]) raises ValueError when a    *)
(* list element is outside range(0, 256).                                  *)

_add_33h(data) ==
    LET out == [i \in 1..Len(data) |-> data[i] + H33]
    IN  IF IsByteSeq(out) THEN [status |-> "ok", bytes |-> out]
        ELSE [status |-> "ValueError", bytes |-> <<>>]

_sub_33h(data) ==
    LET out == [i \in 1..Len(data) |-> data[i] - H33]
    IN  IF IsByteSeq(out) THEN [status |-> "ok", bytes |-> out]
        ELSE [status |-> "ValueError", bytes |-> <<>>]

\* sum(data) & 0x7F
checksum_7bit(data) == Sum(data) % 128

\* sum(data) & 0xFF
_calculate_checksum(data) == Sum(data) % 256

\* the four bytes most significant first
to_bytes_big4(n) == <<n[1], n[2], n[3], n[4]>>

\* int.to_bytes(4, byteorder='little'): least significant digit first
to_bytes_little4(n) == <<n[4], n[3], n[2], n[1]>>

\* int.from_bytes(b, byteorder='big')
from_bytes_big(b) == <<b[1], b[2], b[3], b[4]>>

\* int.from_bytes(b, byteorder='little') of 4 bytes: b[0] is the least
\* significant digit
from_bytes_little(b) == <<b[4], b[3], b[2], b[1]>>

---------------------------------------------------------------------------
(* FrameCodec: _build_frame(control_code, data_id, data), first class of   *)
(* dlt645_read.py.  data_id = NoId is None; data = <<>> is None or b''.    *)

\* a builder that takes the checksum before the data field is appended
build_frame_cs_before_data(addr, control_code, data_id, data) ==
    LET field  == (IF data_id # NoId THEN to_bytes_little4(data_id) ELSE <<>>) \o data
        mfield == IF field # <<>> THEN _add_33h(field)
                  ELSE [status |-> "ok", bytes |-> <<>>]
        head   == <<FRAME_START>> \o addr \o <<FRAME_START, control_code>>
                    \o <<Len(mfield.bytes)>>
    IN  IF mfield.status # "ok" \/ Len(mfield.bytes) > 255
        THEN [status |-> "ValueError", bytes |-> <<>>]
        ELSE [status |-> "ok",
              bytes  |-> head \o mfield.bytes
                           \o <<_calculate_checksum(head), FRAME_END>>]

_build_frame(addr, control_code, data_id, data) ==
    LET field  == (IF data_id # NoId THEN to_bytes_little4(data_id) ELSE <<>>) \o data
        mfield == IF field # <<>> THEN _add_33h(field)
                  ELSE [status |-> "ok", bytes |-> <<>>]
        head   == <<FRAME_START>> \o addr \o <<FRAME_START, control_code>>
                    \o <<Len(mfield.bytes)>> \o mfield.bytes
    IN  IF mfield.status # "ok" \/ Len(mfield.bytes) > 255
        THEN [status |-> "ValueError", bytes |-> <<>>]
        ELSE [status |-> "ok",
              bytes  |-> head \o <<_calculate_checksum(head), FRAME_END>>]

\* a builder that puts the identifier on the line without masking it
build_frame_1_unmasked(addr, control_code, data_id) ==
    LET di_bytes == to_bytes_little4(data_id)
        head     == <<FRAME_START>> \o addr \o <<FRAME_START, control_code>>
                      \o <<Len(di_bytes)>> \o di_bytes
    IN  [status |-> "ok",
         bytes  |-> head \o <<_calculate_checksum(head), FRAME_END>>]

\* _build_frame(control_code, data_id) of dlt645_read_1.py; the builders of
\* dlt645_single_phase.py and of the second class of dlt645_read.py have
\* the same statements
_build_frame_1(addr, control_code, data_id) ==
    LET di_bytes   == to_bytes_little4(data_id)
        data_field == _add_33h(di_bytes)
        head       == <<FRAME_START>> \o addr \o <<FRAME_START, control_code>>
                        \o <<Len(data_field.bytes)>> \o data_field.bytes
    IN  IF data_field.status # "ok"
        THEN [status |-> "ValueError", bytes |-> <<>>]
        ELSE [status |-> "ok",
              bytes  |-> head \o <<_calculate_checksum(head), FRAME_END>>]

---------------------------------------------------------------------------
(* FrameCodec: _parse_response                                             *)

Failed(kind) ==
    [status |-> kind, address |-> <<>>, control |-> -1,
     data_id |-> NoId, data |-> <<>>]

NotParsed == Failed("none")

\* the tail of every _parse_response: unmask, then split identifier/data
Unpack(addr, control, data_field) ==
    LET um == IF data_field # <<>> THEN _sub_33h(data_field)
              ELSE [status |-> "ok", bytes |-> <<>>]
    IN  IF um.status # "ok" THEN Failed("ValueError")
        ELSE IF Len(um.bytes) >= 4
        THEN [status |-> "ok", address |-> addr, control |-> control,
              data_id |-> from_bytes_little(Slice(um.bytes, 0, 4)),
              data |-> Slice(um.bytes, 4, Len(um.bytes))]
        ELSE [status |-> "ok", address |-> addr, control |-> control,
              data_id |-> NoId, data |-> um.bytes]

\* a parser that looks at the checksum before the frame markers
parse_response_checksum_first(r) ==
    IF Len(r) < FrameOverhead THEN Failed("TooShort")
    ELSE IF Len(r) = FrameOverhead + At(r, 9)
            /\ At(r, 10 + At(r, 9)) # _calculate_checksum(Slice(r, 0, 10 + At(r, 9)))
    THEN Failed("ChecksumMismatch")
    ELSE IF At(r, 0) # FRAME_START \/ At(r, Len(r) - 1) # FRAME_END
    THEN Failed("InvalidMarkers")
    ELSE IF At(r, 7) # FRAME_START THEN Failed("InvalidSecondStart")
    ELSE IF Len(r) # FrameOverhead + At(r, 9) THEN Failed("LengthMismatch")
    ELSE Unpack(Slice(r, 1, 7), At(r, 8), Slice(r, 10, 10 + At(r, 9)))

\* a parser without the expected_len comparison
parse_response_no_length_check(r) ==
    IF Len(r) < FrameOverhead THEN Failed("TooShort")
    ELSE IF At(r, 0) # FRAME_START \/ At(r, Len(r) - 1) # FRAME_END
    THEN Failed("InvalidMarkers")
    ELSE IF At(r, 7) # FRAME_START THEN Failed("InvalidSecondStart")
    ELSE LET length == At(r, 9)
         IN  IF 10 + length >= Len(r) THEN Failed("IndexError")
             ELSE IF At(r, 10 + length) # _calculate_checksum(Slice(r, 0, 10 + length))
             THEN Failed("ChecksumMismatch")
             ELSE Unpack(Slice(r, 1, 7), At(r, 8), Slice(r, 10, 10 + length))

\* first class of dlt645_read.py
_parse_response(r) ==
    IF Len(r) < FrameOverhead THEN Failed("TooShort")
    ELSE IF At(r, 0) # FRAME_START \/ At(r, Len(r) - 1) # FRAME_END
    THEN Failed("InvalidMarkers")
    ELSE IF At(r, 7) # FRAME_START THEN Failed("InvalidSecondStart")
    ELSE LET length == At(r, 9)
         IN  IF Len(r) # FrameOverhead + length THEN Failed("LengthMismatch")
             ELSE IF At(r, 10 + length) # _calculate_checksum(Slice(r, 0, 10 + length))
             THEN Failed("ChecksumMismatch")
             ELSE Unpack(Slice(r, 1, 7), At(r, 8), Slice(r, 10, 10 + length))

\* dlt645_read_1.py (the same text is in dlt645_single_phase.py and in the
\* second class of dlt645_read.py): no length check, no 'address' key;
\* response[10+length] raises IndexError past the end
_parse_response_1(r) ==
    IF Len(r) < FrameOverhead THEN Failed("TooShort")
    ELSE IF At(r, 0) # FRAME_START \/ At(r, Len(r) - 1) # FRAME_END
    THEN Failed("InvalidMarkers")
    ELSE IF At(r, 7) # FRAME_START THEN Failed("InvalidSecondStart")
    ELSE LET length == At(r, 9)
         IN  IF 10 + length >= Len(r) THEN Failed("IndexError")
             ELSE IF At(r, 10 + length) # _calculate_checksum(Slice(r, 0, 10 + length))
             THEN Failed("ChecksumMismatch")
             ELSE Unpack(<<>>, At(r, 8), Slice(r, 10, 10 + length))

---------------------------------------------------------------------------
(* The line and the meter                                                  *)

\* a frame as a DL/T 645 meter puts it on the wire: data masked with
\* +0x33 modulo 256, checksum over everything before it
MeterFrame(addr, control, data_id, data) ==
    LET field == (IF data_id # NoId THEN to_bytes_little4(data_id) ELSE <<>>) \o data
        wire  == [i \in 1..Len(field) |-> (field[i] + H33) % 256]
        head  == <<FRAME_START>> \o addr \o <<FRAME_START, control>>
                   \o <<Len(wire)>> \o wire
    IN  head \o <<Sum(head) % 256, FRAME_END>>

\* byte b with bit k inverted
FlipBitOf(b, k) ==
    IF (b \div Pow2(k)) % 2 = 1 THEN b - Pow2(k) ELSE b + Pow2(k)

SetAt(r, i, v) == [r EXCEPT ![i + 1] = v]

DropAt(r, i) == SubSeq(r, 1, i) \o SubSeq(r, i + 2, Len(r))

---------------------------------------------------------------------------
(* Inputs                                                                  *)

\* default address of the first class, and the broadcast address
DefaultAddress == [i \in 1..AddrDigits |-> IF i = AddrDigits THEN "1" ELSE "0"]

BroadcastAddress == [i \in 1..AddrDigits |-> "A"]

SessionAddrs == {DefaultAddress, BroadcastAddress}

\* the candidate addresses of read_meter_dlt645
SourceAddrs ==
    {DefaultAddress, BroadcastAddress,
     <<"0","0","0","2","7","0","2","3","5","0","0","0">>,
     <<"2","7","0","2","3","5","0","0","0","0","0","0">>,
     [i \in 1..AddrDigits |-> "0"],
     [i \in 1..AddrDigits |-> "9"]}

AddrChars == {"0", "1", "9", "A", "f", "G", "+", "-", " "}

ShortAddrs == SeqsUpTo(AddrChars, MaxAddrLen)

\* a short string followed by zeros up to 12 characters
RightPadded(s) == s \o Zeros(AddrDigits - Len(s))

AddrInputs == SourceAddrs \cup ShortAddrs \cup {RightPadded(s) : s \in ShortAddrs}

Controls == {CMD_READ_DATA, CMD_READ_MORE}

\* reply control codes: 0x91 (normal answer) and 0xD1 (error answer)
ReplyControls == {145, 209}

\* no identifier, two catalog identifiers, and 0x000000CD
Ids == {NoId, DI_TOTAL_ACTIVE_ENERGY, DI_VOLTAGE, <<0, 0, 0, 205>>}

\* 0x00, 0xCC, 0xCD, 0xFF
DataBytes == {0, 204, 205, 255}

Payloads == SeqsUpTo(DataBytes, MaxPayLen)

\* values a damaged byte may take
NoiseBytes == {0, FRAME_END, FRAME_START}

\* positions of the start, second start, length, checksum and end bytes
HeaderPositions(r) == {i \in {0, 7, 9, Len(r) - 2, Len(r) - 1} : i >= 0 /\ i < Len(r)}

\* positions a byte may be lost at: first data byte, last byte
DropPositions(r) == {i \in {10, Len(r) - 1} : i >= 0 /\ i < Len(r)}

NoReq == [control |-> -1, data_id |-> NoId, data |-> <<>>]

NoFrame == [status |-> "none", bytes |-> <<>>]

NoMask == [data |-> <<>>, add |-> NoFrame, sub |-> NoFrame]

---------------------------------------------------------------------------
(* ValueDecoder: decode_energy, decode_voltage, decode_current,            *)
(* decode_power and decode_generic_bcd, and the two readings the sessions  *)
(* decode with decode_generic_bcd (power factor and frequency).            *)
(*                                                                         *)
(* A Python float is kept as a decimal: the sequence of its significant    *)
(* digits (no leading and no trailing zero) and the power of ten of the    *)
(* last of them, so that 123456.78 is digits 1 2 3 4 5 6 7 8 with exp -2   *)
(* and 0.0 is no digit at all.  The strings decoded here have at most a    *)
(* dozen digits, which a double tells apart.                               *)

\* longest payload handed to a decoder
MaxDecLen == 5

\* largest decimal_places handed to decode_generic_bcd
MaxPlaces == 3

\* f"{byte:02X}"
HexChars == <<"0","1","2","3","4","5","6","7","8","9",
              "A","B","C","D","E","F">>

Hex02X(byte) == <<HexChars[(byte \div 16) + 1], HexChars[(byte % 16) + 1]>>

\* value_str after `for byte in reversed(data): value_str += f"{byte:02X}"`
RECURSIVE value_str_of(_)
value_str_of(data) ==
    IF data = <<>> THEN <<>>
    ELSE value_str_of(Tail(data)) \o Hex02X(Head(data))

\* value_str[:-p] + "." + value_str[-p:], for 0 < p <= len(value_str)
InsertPoint(s, p) ==
    SubSeq(s, 1, Len(s) - p) \o <<".">> \o SubSeq(s, Len(s) - p + 1, Len(s))

IsDecDigit(c) == c \in {"0","1","2","3","4","5","6","7","8","9"}

RECURSIVE StripLeadingZeros(_)
StripLeadingZeros(ds) ==
    IF ds # <<>> /\ Head(ds) = 0 THEN StripLeadingZeros(Tail(ds)) ELSE ds

RECURSIVE StripTrailingZeros(_)
StripTrailingZeros(ds) ==
    IF ds # <<>> /\ ds[Len(ds)] = 0
    THEN StripTrailingZeros(SubSeq(ds, 1, Len(ds) - 1)) ELSE ds

\* number of zeros StripTrailingZeros removes
TrailingZeros(ds) == Len(ds) - Len(StripTrailingZeros(ds))

\* a double overflows to inf from 1.8e308 on (the payloads of the model
\* give exponents far from that edge)
FloatMaxExp10 == 308

\* exponents are only told apart up to a value that already overflows
ExpCap == 1000

\* value of the decimal digits of an exponent, saturated at ExpCap
RECURSIVE ExpValue(_, _)
ExpValue(x, acc) ==
    IF x = <<>> THEN acc
    ELSE ExpValue(Tail(x), Min(ExpCap, 10 * acc + HexVal(Head(x))))

NoFloat == [status |-> "None", digits |-> <<>>, exp |-> 0, inf |-> FALSE]

FloatError == [NoFloat EXCEPT !.status = "ValueError"]

\* the decimal digits * 10^exp
Decimal(digits, exp) ==
    LET lead == StripLeadingZeros(digits)
        sig  == StripTrailingZeros(lead)
    IN  IF sig = <<>> THEN [NoFloat EXCEPT !.status = "value"]
        ELSE IF Len(lead) + exp > FloatMaxExp10 + 1
        THEN [NoFloat EXCEPT !.status = "value", !.inf = TRUE]
        ELSE [status |-> "value", digits |-> sig,
              exp |-> exp + TrailingZeros(lead), inf |-> FALSE]

\* float(s) for a string of the characters 0-9, A-F and ".": digits with
\* at most one point and at least one digit, then optionally E and at
\* least one digit; anything else raises ValueError
float(s) ==
    LET es   == {i \in 1..Len(s) : s[i] = "E"}
        e    == IF es = {} THEN 0 ELSE CHOOSE i \in es : \A j \in es : i <= j
        m    == IF e = 0 THEN s ELSE SubSeq(s, 1, e - 1)
        x    == IF e = 0 THEN <<>> ELSE SubSeq(s, e + 1, Len(s))
        dots == {i \in 1..Len(m) : m[i] = "."}
        md   == SelectSeq(m, IsDecDigit)
        frac == IF dots = {} THEN 0 ELSE Len(m) - (CHOOSE i \in dots : TRUE)
        okM  == /\ \A i \in 1..Len(m) : m[i] = "." \/ IsDecDigit(m[i])
                /\ Cardinality(dots) <= 1
                /\ md # <<>>
        okX  == e = 0 \/ (x # <<>> /\ \A i \in 1..Len(x) : IsDecDigit(x[i]))
    IN  IF okM /\ okX
        THEN Decimal([i \in 1..Len(md) |-> HexVal(md[i])],
                     ExpValue(x, 0) - frac)
        ELSE FloatError

\* `return float(value_str)` without its try/except
float_unguarded(s) == float(s)

\* try: return float(value_str) / except: return None
float_or_None(s) ==
    LET f == float(s) IN IF f.status = "ValueError" THEN NoFloat ELSE f

\* a fixed-width decoder reading the whole payload
decode_fixed_whole(data, n, p) ==
    IF data = <<>> \/ Len(data) < n THEN NoFloat
    ELSE LET value_str == value_str_of(data)
         IN  float_or_None(IF Len(value_str) >= p
                           THEN InsertPoint(value_str, p) ELSE value_str)

\* the fixed-width decoders: n register bytes, p decimal places
decode_fixed(data, n, p) ==
    IF data = <<>> \/ Len(data) < n THEN NoFloat
    ELSE LET value_str == value_str_of(Slice(data, 0, n))
         IN  float_or_None(IF Len(value_str) >= p
                           THEN InsertPoint(value_str, p) ELSE value_str)

decode_energy(data) == decode_fixed(data, 4, 2)

decode_voltage(data) == decode_fixed(data, 2, 1)

decode_current(data) == decode_fixed(data, 3, 3)

decode_power(data) == decode_fixed(data, 3, 4)

decode_generic_bcd(data, decimal_places) ==
    IF data = <<>> THEN NoFloat
    ELSE LET value_str == value_str_of(data)
             s == IF decimal_places > 0 /\ Len(value_str) >= decimal_places
                  THEN InsertPoint(value_str, decimal_places) ELSE value_str
         IN  IF s # <<>> /\ s # <<".">> THEN float_or_None(s) ELSE NoFloat

\* decimal places of the two readings decoded with decode_generic_bcd
PowerFactorPlaces == 3

FrequencyPlaces == 2

\* `if pf:` - None and 0.0 are false
Truthy(v) == v.status = "value" /\ (v.digits # <<>> \/ v.inf)

\* read_all_meter_data of dlt645_read_1.py: the value put in data_log
reading_read_1(data, decimal_places) ==
    IF data = <<>> THEN NoFloat
    ELSE LET v == decode_generic_bcd(data, decimal_places)
         IN  IF Truthy(v) THEN v ELSE NoFloat

\* read_meter of dlt645_single_phase.py: the value printed
reading_single_phase(data, decimal_places) ==
    IF data = <<>> THEN NoFloat
    ELSE decode_generic_bcd(data, decimal_places)

FixedDecoders ==
    {"decode_energy", "decode_voltage", "decode_current", "decode_power"}

Programs == {"read_1", "single_phase"}

\* payload bytes: decimal digits, and hexadecimal digits in each nibble
DecBytes == {0, 18, 30, 167, 229}

\* the payloads of the docstring formats XXXXXX.XX and XXX.X
EnergyExample == <<120, 86, 52, 18>>

VoltageExample == <<48, 34>>

DecInputs == SeqsUpTo(DecBytes, MaxDecLen) \cup {EnergyExample, VoltageExample}

NoDec ==
    [fn |-> "none", prog |-> "none", data |-> <<>>, places |-> 0,
     out |-> NoFloat]

CodecIdle ==
    /\ addr_in = DefaultAddress
    /\ addr_status = "unset"
    /\ address = <<>>
    /\ req = NoReq
    /\ frame = NoFrame
    /\ response = <<>>
    /\ origin = "none"
    /\ ncorrupt = 0
    /\ flipped = <<>>
    /\ parsed = NotParsed
    /\ parsed1 = NotParsed
    /\ masked = NoMask

InitDecode ==
    /\ CodecIdle
    /\ dec = NoDec
    /\ NoSession

DecodeFixed(fn, data) ==
    /\ dec = NoDec
    /\ dec' = [fn |-> fn, prog |-> "read_1", data |-> data, places |-> 0,
               out |-> CASE fn = "decode_energy"  -> decode_energy(data)
                         [] fn = "decode_voltage" -> decode_voltage(data)
                         [] fn = "decode_current" -> decode_current(data)
                         [] fn = "decode_power"   -> decode_power(data)]
    /\ UNCHANGED <<cvars, svars, rvars>>

DecodeGeneric(data, decimal_places) ==
    /\ dec = NoDec
    /\ dec' = [fn |-> "decode_generic_bcd", prog |-> "read_1", data |-> data,
               places |-> decimal_places,
               out |-> decode_generic_bcd(data, decimal_places)]
    /\ UNCHANGED <<cvars, svars, rvars>>

ReadPowerFactor(prog, data) ==
    /\ dec = NoDec
    /\ dec' = [fn |-> "power_factor", prog |-> prog, data |-> data,
               places |-> PowerFactorPlaces,
               out |-> IF prog = "read_1"
                       THEN reading_read_1(data, PowerFactorPlaces)
                       ELSE reading_single_phase(data, PowerFactorPlaces)]
    /\ UNCHANGED <<cvars, svars, rvars>>

ReadFrequency(prog, data) ==
    /\ dec = NoDec
    /\ dec' = [fn |-> "frequency", prog |-> prog, data |-> data,
               places |-> FrequencyPlaces,
               out |-> IF prog = "read_1"
                       THEN reading_read_1(data, FrequencyPlaces)
                       ELSE reading_single_phase(data, FrequencyPlaces)]
    /\ UNCHANGED <<cvars, svars, rvars>>

\* one call per behaviour: the inputs are only drawn while none was made
NextDecode ==
    \/ dec = NoDec /\ \E fn \in FixedDecoders, data \in DecInputs :
                         DecodeFixed(fn, data)
    \/ dec = NoDec /\ \E data \in DecInputs, p \in 0..MaxPlaces :
                         DecodeGeneric(data, p)
    \/ dec = NoDec /\ \E prog \in Programs, data \in DecInputs :
                         ReadPowerFactor(prog, data)
    \/ dec = NoDec /\ \E prog \in Programs, data \in DecInputs :
                         ReadFrequency(prog, data)

SpecDecode == InitDecode /\ [][NextDecode]_vars

---------------------------------------------------------------------------
(* Specification of the codec: a constructed protocol object builds        *)
(* frames, receives bytes from the line and parses them                    *)

Init ==
    /\ addr_in \in SessionAddrs
    /\ addr_status = _format_address(addr_in).status
    /\ address = _format_address(addr_in).bytes
    /\ req = NoReq
    /\ frame = NoFrame
    /\ response = <<>>
    /\ origin = "none"
    /\ ncorrupt = 0
    /\ flipped = <<>>
    /\ parsed = NotParsed
    /\ parsed1 = NotParsed
    /\ masked = NoMask
    /\ dec = NoDec
    /\ NoSession

\* frame = self._build_frame(control_code, data_id, data), for the one
\* exchange a behaviour follows
BuildFrame(c, id, d) ==
    /\ addr_status = "ok"
    /\ frame = NoFrame
    /\ origin = "none"
    /\ req' = [control |-> c, data_id |-> id, data |-> d]
    /\ frame' = _build_frame(address, c, id, d)
    /\ response' = <<>>
    /\ origin' = "none"
    /\ ncorrupt' = 0
    /\ flipped' = <<>>
    /\ parsed' = NotParsed
    /\ parsed1' = NotParsed
    /\ UNCHANGED <<addr_in, addr_status, address, masked>>
    /\ UNCHANGED <<dvars, svars, rvars>>

\* the half-duplex line returns the frame that was written
Echo ==
    /\ frame.status = "ok"
    /\ origin = "none"
    /\ response' = frame.bytes
    /\ origin' = "echo"
    /\ ncorrupt' = 0
    /\ flipped' = <<>>
    /\ parsed' = NotParsed
    /\ parsed1' = NotParsed
    /\ UNCHANGED <<addr_in, addr_status, address, req, frame, masked>>
    /\ UNCHANGED <<dvars, svars, rvars>>

\* the request is consumed by the exchange; the meter answers with a
\* well-formed frame
MeterReply(c, id, d) ==
    /\ frame.status = "ok"
    /\ origin = "none"
    /\ response' = MeterFrame(address, c, id, d)
    /\ origin' = "meter"
    /\ req' = NoReq
    /\ frame' = NoFrame
    /\ ncorrupt' = 0
    /\ flipped' = <<>>
    /\ parsed' = NotParsed
    /\ parsed1' = NotParsed
    /\ UNCHANGED <<addr_in, addr_status, address, masked>>
    /\ UNCHANGED <<dvars, svars, rvars>>

\* line noise: exactly one bit of the response is inverted
FlipBit(i, k) ==
    /\ origin # "none"
    /\ ncorrupt = 0
    /\ flipped = <<>>
    /\ i < Len(response)
    /\ response' = SetAt(response, i, FlipBitOf(At(response, i), k))
    /\ flipped' = <<i, k>>
    /\ parsed' = NotParsed
    /\ parsed1' = NotParsed
    /\ UNCHANGED <<addr_in, addr_status, address, req, frame, origin, ncorrupt, masked>>
    /\ UNCHANGED <<dvars, svars, rvars>>

\* line noise: a framing byte is replaced
SetByte(i, v) ==
    /\ origin # "none"
    /\ flipped = <<>>
    /\ ncorrupt < MaxCorrupt
    /\ i \in HeaderPositions(response)
    /\ response' = SetAt(response, i, v)
    /\ ncorrupt' = ncorrupt + 1
    /\ parsed' = NotParsed
    /\ parsed1' = NotParsed
    /\ UNCHANGED <<addr_in, addr_status, address, req, frame, origin, flipped, masked>>
    /\ UNCHANGED <<dvars, svars, rvars>>

\* line noise: a byte is lost
DropByte(i) ==
    /\ origin # "none"
    /\ flipped = <<>>
    /\ ncorrupt < MaxCorrupt
    /\ i \in DropPositions(response)
    /\ response' = DropAt(response, i)
    /\ ncorrupt' = ncorrupt + 1
    /\ parsed' = NotParsed
    /\ parsed1' = NotParsed
    /\ UNCHANGED <<addr_in, addr_status, address, req, frame, origin, flipped, masked>>
    /\ UNCHANGED <<dvars, svars, rvars>>

\* line noise: a byte arrives after the frame
AppendByte(v) ==
    /\ origin # "none"
    /\ flipped = <<>>
    /\ ncorrupt < MaxCorrupt
    /\ response' = Append(response, v)
    /\ ncorrupt' = ncorrupt + 1
    /\ parsed' = NotParsed
    /\ parsed1' = NotParsed
    /\ UNCHANGED <<addr_in, addr_status, address, req, frame, origin, flipped, masked>>
    /\ UNCHANGED <<dvars, svars, rvars>>

\* parsed = self._parse_response(response), first class of dlt645_read.py
Parse ==
    /\ origin # "none"
    /\ response # <<>>
    /\ parsed = NotParsed
    /\ parsed' = _parse_response(response)
    /\ UNCHANGED <<addr_in, addr_status, address, req, frame, response, origin,
                   ncorrupt, flipped, parsed1, masked>>
    /\ UNCHANGED <<dvars, svars, rvars>>

\* parsed = self._parse_response(response), dlt645_read_1.py
Parse1 ==
    /\ origin # "none"
    /\ response # <<>>
    /\ parsed1 = NotParsed
    /\ parsed1' = _parse_response_1(response)
    /\ UNCHANGED <<addr_in, addr_status, address, req, frame, response, origin,
                   ncorrupt, flipped, parsed, masked>>
    /\ UNCHANGED <<dvars, svars, rvars>>

Next ==
    \/ \E c \in Controls, id \in Ids, d \in Payloads : BuildFrame(c, id, d)
    \/ Echo
    \/ \E c \in ReplyControls, id \in Ids, d \in Payloads : MeterReply(c, id, d)
    \/ \E i \in 0..(FrameOverhead + 4 + MaxPayLen), k \in 0..7 : FlipBit(i, k)
    \/ \E i \in 0..(FrameOverhead + 4 + MaxPayLen + MaxCorrupt), v \in NoiseBytes : SetByte(i, v)
    \/ \E i \in 0..(FrameOverhead + 4 + MaxPayLen + MaxCorrupt) : DropByte(i)
    \/ \E v \in NoiseBytes : AppendByte(v)
    \/ Parse
    \/ Parse1

Spec == Init /\ [][Next]_vars

---------------------------------------------------------------------------
(* Specification of the read request on a noisy line: an object of         *)
(* dlt645_read_1.py builds a read frame, the line returns it with one bit  *)
(* inverted, the object parses what it received                            *)

\* sys.argv[2]: the address of the meter on the line
MeterAddress52 ==
    [i \in 1..AddrDigits |->
        IF i = AddrDigits - 1 THEN "5" ELSE IF i = AddrDigits THEN "2" ELSE "0"]

FlipAddrs == {DefaultAddress, BroadcastAddress, MeterAddress52}

\* the identifiers of the codec, every one present
FlipIds == Ids \ {NoId}

InitFlip ==
    /\ addr_in \in FlipAddrs
    /\ addr_status = _format_address(addr_in).status
    /\ address = _format_address(addr_in).bytes
    /\ req = NoReq
    /\ frame = NoFrame
    /\ response = <<>>
    /\ origin = "none"
    /\ ncorrupt = 0
    /\ flipped = <<>>
    /\ parsed = NotParsed
    /\ parsed1 = NotParsed
    /\ masked = NoMask
    /\ dec = NoDec
    /\ NoSession

\* frame = self._build_frame(control_code, data_id), dlt645_read_1.py
BuildFrame1(c, id) ==
    /\ addr_status = "ok"
    /\ frame = NoFrame
    /\ origin = "none"
    /\ req' = [control |-> c, data_id |-> id, data |-> <<>>]
    /\ frame' = _build_frame_1(address, c, id)
    /\ response' = <<>>
    /\ origin' = "none"
    /\ ncorrupt' = 0
    /\ flipped' = <<>>
    /\ parsed' = NotParsed
    /\ parsed1' = NotParsed
    /\ UNCHANGED <<addr_in, addr_status, address, masked>>
    /\ UNCHANGED <<dvars, svars, rvars>>

NextFlip ==
    \/ \E c \in Controls, id \in FlipIds : BuildFrame1(c, id)
    \/ Echo
    \/ \E i \in 0..(FrameOverhead + 4), k \in 0..7 : FlipBit(i, k)
    \/ Parse1

SpecFlip == InitFlip /\ [][NextFlip]_vars

---------------------------------------------------------------------------
(* Specification of the address codec: DLT645Protocol(port, address)       *)

InitAddr ==
    /\ addr_in \in AddrInputs
    /\ addr_status = "unset"
    /\ address = <<>>
    /\ req = NoReq
    /\ frame = NoFrame
    /\ response = <<>>
    /\ origin = "none"
    /\ ncorrupt = 0
    /\ flipped = <<>>
    /\ parsed = NotParsed
    /\ parsed1 = NotParsed
    /\ masked = NoMask
    /\ dec = NoDec
    /\ NoSession

\* self.address = self._format_address(address)
Construct ==
    /\ addr_status = "unset"
    /\ addr_status' = _format_address(addr_in).status
    /\ address' = _format_address(addr_in).bytes
    /\ UNCHANGED <<addr_in, req, frame, response, origin, ncorrupt, flipped,
                   parsed, parsed1, masked>>
    /\ UNCHANGED <<dvars, svars, rvars>>

NextAddr == Construct

SpecAddr == InitAddr /\ [][NextAddr]_vars

---------------------------------------------------------------------------
(* Specification of the masking functions                                  *)

\* longest data field given to _add_33h
MaxMaskLen == 1

MaskInputs == SeqsUpTo(0..255, MaxMaskLen)

InitMask ==
    /\ addr_in = DefaultAddress
    /\ addr_status = _format_address(addr_in).status
    /\ address = _format_address(addr_in).bytes
    /\ req = NoReq
    /\ frame = NoFrame
    /\ response = <<>>
    /\ origin = "none"
    /\ ncorrupt = 0
    /\ flipped = <<>>
    /\ parsed = NotParsed
    /\ parsed1 = NotParsed
    /\ masked = NoMask
    /\ dec = NoDec
    /\ NoSession

\* self._sub_33h(self._add_33h(data)); _sub_33h is not reached when
\* _add_33h raises
Mask(d) ==
    /\ masked' = [data |-> d,
                  add  |-> _add_33h(d),
                  sub  |-> IF _add_33h(d).status = "ok"
                           THEN _sub_33h(_add_33h(d).bytes) ELSE NoFrame]
    /\ UNCHANGED <<addr_in, addr_status, address, req, frame, response, origin,
                   ncorrupt, flipped, parsed, parsed1>>
    /\ UNCHANGED <<dvars, svars, rvars>>

NextMask == \E d \in MaskInputs : Mask(d)

SpecMask == InitMask /\ [][NextMask]_vars

---------------------------------------------------------------------------
(* Claims                                                                  *)

\* the data field of a request, before masking
FieldOf(r) == (IF r.data_id # NoId THEN to_bytes_little4(r.data_id) ELSE <<>>) \o r.data

\* the response is the built frame, undamaged
CleanEcho == origin = "echo" /\ ncorrupt = 0 /\ flipped = <<>>

\* C1: for any control code, 4-byte identifier and payload, _build_frame
\* returns a frame, and parsing that frame succeeds and gives back the
\* same control code, identifier and payload.
C1_RoundTrip ==
    /\ (req # NoReq /\ req.data_id # NoId) => frame.status = "ok"
    /\ (CleanEcho /\ req.data_id # NoId /\ parsed # NotParsed) =>
          /\ parsed.status = "ok"
          /\ parsed.control = req.control
          /\ parsed.data_id = req.data_id
          /\ parsed.data = req.data

\* C2: a frame returned by _build_frame is 0x68, the 6 address bytes,
\* 0x68, the control code, L, L data bytes, CS, 0x16, with L the number of
\* masked data bytes, 12 + L bytes in all, and CS the sum modulo 256 of
\* every byte before it.
C2_FrameLayout ==
    frame.status = "ok" =>
        LET f == frame.bytes
            L == Len(FieldOf(req))
        IN  /\ Len(f) = 12 + L
            /\ At(f, 0) = 104
            /\ SubSeq(f, 2, 7) = address
            /\ At(f, 7) = 104
            /\ At(f, 8) = req.control
            /\ At(f, 9) = L
            /\ At(f, 10 + L) = Sum(SubSeq(f, 1, 10 + L)) % 256
            /\ At(f, 11 + L) = 22

\* a frame with an identifier and a payload byte has been built
C2_Witness ==
    frame.status = "ok" /\ req.data_id = DI_VOLTAGE /\ Len(req.data) >= 1

\* the checks of the parser, each stated on the response alone
ViolatesTooShort(r) == Len(r) < 12

ViolatesMarkers(r) == Len(r) >= 1 /\ (r[1] # 104 \/ r[Len(r)] # 22)

ViolatesSecondStart(r) == Len(r) >= 8 /\ r[8] # 104

ViolatesLength(r) == Len(r) >= 10 /\ Len(r) # 12 + r[10]

ViolatesChecksum(r) ==
    /\ Len(r) >= 10
    /\ 11 + r[10] <= Len(r)
    /\ r[11 + r[10]] # Sum(SubSeq(r, 1, 10 + r[10])) % 256

EarliestViolation(r) ==
    IF ViolatesTooShort(r) THEN "TooShort"
    ELSE IF ViolatesMarkers(r) THEN "InvalidMarkers"
    ELSE IF ViolatesSecondStart(r) THEN "InvalidSecondStart"
    ELSE IF ViolatesLength(r) THEN "LengthMismatch"
    ELSE IF ViolatesChecksum(r) THEN "ChecksumMismatch"
    ELSE "none"

ViolationCount(r) ==
    Cardinality({k \in 1..5 :
        \/ k = 1 /\ ViolatesTooShort(r)
        \/ k = 2 /\ ViolatesMarkers(r)
        \/ k = 3 /\ ViolatesSecondStart(r)
        \/ k = 4 /\ ViolatesLength(r)
        \/ k = 5 /\ ViolatesChecksum(r)})

ValidMarkers(r) == Len(r) >= 10 /\ r[1] = 104 /\ r[8] = 104 /\ r[Len(r)] = 22

\* C4 as stated: every response with valid markers whose byte count
\* differs from 12 + its declared length fails with the length-mismatch
\* error.
C4_Original ==
    (parsed # NotParsed /\ ValidMarkers(response)
       /\ Len(response) # 12 + response[10]) =>
        parsed.status = "LengthMismatch"

\* C4 amended: every response of at least 12 bytes with valid markers
\* whose byte count differs from 12 + its declared length fails with the
\* length-mismatch error and yields no parsed frame; with fewer than 12
\* bytes it fails with the too-short error.
C4_LengthMismatch ==
    (parsed # NotParsed /\ ValidMarkers(response)
       /\ Len(response) # 12 + response[10]) =>
        /\ parsed.status = IF Len(response) >= 12 THEN "LengthMismatch" ELSE "TooShort"
        /\ parsed.data = <<>>
        /\ parsed.data_id = NoId

\* a response declaring more data bytes than it carries was parsed
C4_Witness ==
    /\ parsed.status = "LengthMismatch"
    /\ ValidMarkers(response)
    /\ Len(response) < 12 + response[10]

\* C5: the parser of dlt645_read_1.py (and its copies) accepts no response
\* whose byte count differs from 12 + its declared length byte.
C5_NoSilentRepair ==
    parsed1.status = "ok" => Len(response) = 12 + response[10]

\* position of the checksum byte of a built frame
ChecksumPos(f) == Len(f) - 2

\* C6 as stated: a built frame with one bit flipped anywhere but in the
\* checksum byte fails to parse with the checksum-mismatch error.
C6_Original ==
    (origin = "echo" /\ flipped # <<>> /\ flipped[1] # ChecksumPos(frame.bytes)
       /\ parsed # NotParsed) =>
        parsed.status = "ChecksumMismatch"

\* C6 amended: a built frame with one bit flipped anywhere but in the
\* checksum byte fails to parse; the error is checksum mismatch when the
\* bit lies in the address, control or data bytes, frame markers when it
\* lies in the first start byte or the end byte, second start when it lies
\* in byte 7, and length mismatch when it lies in the length byte.
C6_BitFlipRejected ==
    (origin = "echo" /\ flipped # <<>> /\ flipped[1] # ChecksumPos(frame.bytes)
       /\ parsed # NotParsed) =>
        LET i == flipped[1]
        IN  parsed.status =
              IF i = 0 \/ i = Len(frame.bytes) - 1 THEN "InvalidMarkers"
              ELSE IF i = 7 THEN "InvalidSecondStart"
              ELSE IF i = 9 THEN "LengthMismatch"
              ELSE "ChecksumMismatch"

\* a bit of a data byte of a built frame was flipped and the parser
\* answered checksum mismatch
C6_Witness ==
    /\ origin = "echo"
    /\ flipped # <<>>
    /\ flipped[1] >= 10
    /\ flipped[1] < ChecksumPos(frame.bytes)
    /\ parsed.status = "ChecksumMismatch"

\* the response passes the marker, length and checksum checks
PassesChecks(r) ==
    /\ Len(r) >= 12
    /\ r[1] = 104 /\ r[Len(r)] = 22 /\ r[8] = 104
    /\ Len(r) = 12 + r[10]
    /\ r[Len(r) - 1] = Sum(SubSeq(r, 1, Len(r) - 2)) % 256

\* the data field a parse result stands for
ParsedField(p) ==
    (IF p.data_id # NoId THEN to_bytes_little4(p.data_id) ELSE <<>>) \o p.data

\* C7: for every response that passes the marker, length and checksum
\* checks the parser returns a data field whose bytes are
\* (wire byte - 0x33) mod 256, for wire bytes below 0x33 too.
C7_UnmaskMod256 ==
    (parsed # NotParsed /\ PassesChecks(response)) =>
        /\ parsed.status = "ok"
        /\ ParsedField(parsed) =
             [i \in 1..response[10] |-> (response[10 + i] - 51) % 256]

\* C8: _add_33h(D) returns the bytes (d + 0x33) mod 256 for every data
\* field D, and _sub_33h gives D back.
C8_MaskRoundTrip ==
    masked # NoMask =>
        /\ masked.add.status = "ok"
        /\ masked.add.bytes =
             [i \in 1..Len(masked.data) |-> (masked.data[i] + 51) % 256]
        /\ masked.sub.status = "ok"
        /\ masked.sub.bytes = masked.data

\* the unmasked data field of an accepted response, read off the wire
\* with the declared length
WireField(r) == [i \in 1..r[10] |-> r[10 + i] - 51]

SplitsField(p, um) ==
    IF Len(um) >= 4
    THEN /\ p.data_id = <<um[4], um[3], um[2], um[1]>>
         /\ p.data = SubSeq(um, 5, Len(um))
    ELSE /\ p.data_id = NoId
         /\ p.data = um

\* C9: for every accepted response, with an unmasked data field of 4 bytes
\* or more data_id is the little-endian value of the first 4 bytes and
\* data is the rest; with fewer than 4 bytes data_id is None and data is
\* the whole field.  Checked for both parsers.
C9_IdentifierSplit ==
    /\ parsed.status = "ok" => SplitsField(parsed, WireField(response))
    /\ parsed1.status = "ok" => SplitsField(parsed1, WireField(response))

\* a response carrying an identifier and a payload byte was accepted
C9_Witness ==
    /\ parsed.status = "ok"
    /\ parsed.data_id = DI_VOLTAGE
    /\ Len(parsed.data) >= 1
    /\ parsed1 = [parsed EXCEPT !.address = <<>>]

AllHex(s) == \A i \in 1..Len(s) : s[i] \in HexDigits

\* C10: for an address string of at most 12 hexadecimal digits,
\* _format_address returns 6 bytes, byte i being the value of pair 5 - i
\* of the string left-padded with "0" to 12 characters; "000000000001"
\* gives 01 00 00 00 00 00 and "AAAAAAAAAAAA" gives six AA.
C10_AddressBytes ==
    (addr_status # "unset" /\ Len(addr_in) <= 12 /\ AllHex(addr_in)) =>
        LET padded == [i \in 1..12 |->
                         IF i <= 12 - Len(addr_in) THEN "0"
                         ELSE addr_in[i - (12 - Len(addr_in))]]
        IN  /\ addr_status = "ok"
            /\ Len(address) = 6
            /\ \A i \in 0..5 :
                 address[i + 1] = 16 * HexVal(padded[2 * (5 - i) + 1])
                                    + HexVal(padded[2 * (5 - i) + 2])
            /\ addr_in = DefaultAddress => address = <<1, 0, 0, 0, 0, 0>>
            /\ addr_in = BroadcastAddress => address = <<170, 170, 170, 170, 170, 170>>

\* the address "000270235000" was formatted
C10_Witness ==
    /\ addr_in = <<"0","0","0","2","7","0","2","3","5","0","0","0">>
    /\ addr_status = "ok"
    /\ address = <<0, 80, 35, 112, 2, 0>>

\* C11: every address string of at most 12 characters that, left-padded
\* with zeros to 12 characters, contains a character that is not a
\* hexadecimal digit makes _format_address fail and yield no address.
C11_NonHexRejected ==
    (addr_status # "unset" /\ Len(addr_in) <= 12 /\ ~AllHex(addr_in)) =>
        /\ addr_status = "ValueError"
        /\ address = <<>>

---------------------------------------------------------------------------
(* Claims on the value decoders                                            *)

\* the 2 * len(data) nibbles of data, high nibble of each byte first
Nibbles(data) ==
    [i \in 1..(2 * Len(data)) |->
        IF i % 2 = 1 THEN data[(i + 1) \div 2] \div 16
        ELSE data[i \div 2] % 16]

AllDecimal(data) == \A i \in 1..(2 * Len(data)) : Nibbles(data)[i] <= 9

\* the digits of the bytes in reverse order, point before the last p
BcdValue(data, p) == Decimal(Nibbles(Reversed(data)), 0 - p)

\* register width and decimal places of a fixed-width decoder
Width(fn) ==
    CASE fn = "decode_energy" -> 4 [] fn = "decode_voltage" -> 2
      [] fn = "decode_current" -> 3 [] fn = "decode_power" -> 3

Places(fn) ==
    CASE fn = "decode_energy" -> 2 [] fn = "decode_voltage" -> 1
      [] fn = "decode_current" -> 3 [] fn = "decode_power" -> 4

\* the bytes a decoder call reads
Consumed ==
    IF dec.fn \in FixedDecoders THEN Slice(dec.data, 0, Width(dec.fn))
    ELSE dec.data

\* C14: decode_generic_bcd(data, decimal_places) returns None whenever the
\* number of digits (two per byte) is at most decimal_places; otherwise it
\* returns the number formed by the digits of the bytes in reverse order
\* with the decimal point before the last decimal_places digits.
C14_GenericBcd ==
    dec.fn = "decode_generic_bcd" =>
        IF 2 * Len(dec.data) <= dec.places
        THEN dec.out.status = "None"
        ELSE AllDecimal(dec.data) => dec.out = BcdValue(dec.data, dec.places)

\* C15: the decoders fail softly: for every payload decode_energy,
\* decode_voltage, decode_current, decode_power and decode_generic_bcd
\* return a value or None and never raise, and a payload shorter than the
\* register width (4, 2, 3, 3 bytes) makes the fixed-width decoders
\* return None.
C15_FailSoftly ==
    dec.fn \in FixedDecoders \cup {"decode_generic_bcd"} =>
        /\ dec.out.status \in {"value", "None"}
        /\ (dec.fn \in FixedDecoders /\ Len(dec.data) < Width(dec.fn)) =>
               dec.out.status = "None"

\* decode_voltage was given two bytes that float() rejects
C15_Witness ==
    /\ dec.fn = "decode_voltage"
    /\ dec.data = <<167, 18>>
    /\ float(InsertPoint(value_str_of(dec.data), 1)).status = "ValueError"
    /\ dec.out.status = "None"

\* C16: a garbled payload yields no value: when a nibble of the bytes a
\* decoder consumes is 10..15, the decoder returns None.
C16_GarbledIsNone ==
    (dec.fn \in FixedDecoders \cup {"decode_generic_bcd"}
        /\ ~AllDecimal(Consumed)) => dec.out.status = "None"

C18_TwoByteReadings ==
    (dec.fn \in {"power_factor", "frequency"} /\ Len(dec.data) >= 2) =>
        dec.out = BcdValue(Slice(dec.data, 0, 2), dec.places)

---------------------------------------------------------------------------
(* Transport and session: a DLT645Protocol object and the calls a client   *)
(* makes on it (connect, read_data, disconnect), with _send_frame          *)
(* followed statement by statement.                                        *)
(*                                                                         *)
(* Time is counted in polls of the accumulation loop: one tick is its      *)
(* time.sleep(0.05).  The meter is the environment: after a frame is       *)
(* written it may send nothing, a reply in one or several chunks, or       *)
(* noise; a chunk reaches the input buffer at any moment while the         *)
(* channel is open.                                                        *)

\* number of calls a client makes on one object
MaxCalls == 3

\* largest number of chunks on their way from the meter
MaxPending == 2

\* bytes of one response the model records: response.extend(chunk) has no
\* limit, the bytes read after the first RxCap are read and not recorded
RxCap == 128

\* time.sleep(0.05) of the accumulation loop, in milliseconds
TickMs == 50

\* timeout = time.time() + 0.5 after a chunk
InactivityMs == 500

InactivityTicks == InactivityMs \div TickMs

\* the three transports: first class of dlt645_read.py, dlt645_read_1.py,
\* dlt645_single_phase.py
Transports == {"read", "read_1", "single_phase"}

\* timeout = time.time() + 2.0 (dlt645_read.py), + 3.0 (the other two)
CeilingMs(p) == IF p = "read" THEN 2000 ELSE 3000

CeilingTicks(p) == CeilingMs(p) \div TickMs

\* a _send_frame that makes one attempt more
retries_one_more(p) == IF p = "single_phase" THEN 3 ELSE 2

\* attempts of one _send_frame call: no loop in dlt645_read.py,
\* retries=1 in dlt645_read_1.py, retries=2 in dlt645_single_phase.py
Retries(p) == IF p = "single_phase" THEN 2 ELSE 1

\* wakeup = b'\xFE\xFE\xFE\xFE'
Wakeup == <<254, 254, 254, 254>>

\* the statements of one attempt in the order the code runs them
step_after_frame_first(step) ==
    CASE step = "clear" -> "frame" [] step = "frame" -> "wake"
      [] step = "wake" -> "accumulate"

StepAfter(step) ==
    CASE step = "clear" -> "wake" [] step = "wake" -> "frame"
      [] step = "frame" -> "accumulate"

\* where a client goes after DLT645Protocol(...) failing on every address
after_init_unchecked(status) == "idle"

\* DLT645Protocol(port, address): an exception of _format_address leaves
\* __init__, no object exists and no call can be made on it
AfterInit(status) == IF status = "ok" THEN "idle" ELSE "aborted"

\* serial.Serial(port=..., baudrate=self.baudrate, bytesize=8, parity=...,
\* stopbits=1, timeout=2) of connect(); no session passes a baudrate, so
\* self.baudrate is the 9600 of __init__
Settings(p) ==
    [baudrate |-> 9600, bytesize |-> 8,
     parity |-> IF p = "single_phase" THEN "N" ELSE "E", stopbits |-> 1]

\* a read_data that waits as long after a failure as after a success
pace_uniform(p, ok) == IF p = "read" THEN 0 ELSE 500

\* the time.sleep of read_data after its exchange, in milliseconds:
\* 1.5 and 0.5 in dlt645_read_1.py, 0.3 and 0.2 in dlt645_single_phase.py,
\* none in dlt645_read.py
PaceMs(p, ok) ==
    CASE p = "read_1" -> IF ok THEN 1500 ELSE 500
      [] p = "single_phase" -> IF ok THEN 300 ELSE 200
      [] OTHER -> 0

\* the address strings given to a session: the meter number tried by
\* read_meter_dlt645, and one that is no number
SessionInputs ==
    {<<"0","0","0","2","7","0","2","3","5","0","0","0">>, <<"G">>}

DI_FORWARD_ACTIVE == <<0, 1, 0, 0>>

DI_REVERSE_ACTIVE == <<0, 2, 0, 0>>

DI_REMAINING_ENERGY == <<0, 144, 1, 0>>

DI_CURRENT == <<2, 2, 1, 0>>

\* the identifiers a session reads first, in its order: read_meter_dlt645
\* of dlt645_read.py, read_all_meter_data and read_meter
SessionIds(p) ==
    IF p = "read"
    THEN <<DI_TOTAL_ACTIVE_ENERGY, DI_VOLTAGE, DI_CURRENT,
           DI_REMAINING_ENERGY>>
    ELSE <<DI_TOTAL_ACTIVE_ENERGY, DI_FORWARD_ACTIVE, DI_REVERSE_ACTIVE,
           DI_REMAINING_ENERGY>>

\* what a meter puts in a reply
ReplyPayload == VoltageExample

\* a 0x91 reply of the addressed meter to the request last built
Reply == MeterFrame(address, 145, req.data_id, ReplyPayload)

\* r cut into chunks at the positions of cuts
RECURSIVE SplitAt(_, _, _)
SplitAt(r, cuts, from) ==
    IF cuts = {} THEN <<Slice(r, from, Len(r))>>
    ELSE LET k == CHOOSE c \in cuts : \A d \in cuts : c <= d
         IN  <<Slice(r, from, k)>> \o SplitAt(r, cuts \ {k}, k)

\* where the line may cut a reply: after its first byte, before its last
CutPoints(r) == {1, Len(r) - 1}

\* what the meter sends after a frame: nothing, a reply in at most n
\* chunks, or one byte of noise
Plans(n) ==
    {<<>>} \cup
    (IF n >= 1
     THEN {<<(<<FRAME_END>>)>>} \cup
          {SplitAt(Reply, cuts, 0) :
              cuts \in {c \in SUBSET CutPoints(Reply) : Cardinality(c) < n}}
     ELSE {})

RECURSIVE Flatten(_)
Flatten(cs) == IF cs = <<>> THEN <<>> ELSE Head(cs) \o Flatten(Tail(cs))

InitSession ==
    /\ addr_in \in SessionInputs
    /\ addr_status = "unset"
    /\ address = <<>>
    /\ req = NoReq
    /\ frame = NoFrame
    /\ response = <<>>
    /\ origin = "none"
    /\ ncorrupt = 0
    /\ flipped = <<>>
    /\ parsed = NotParsed
    /\ parsed1 = NotParsed
    /\ masked = NoMask
    /\ dec = NoDec
    /\ variant \in Transports
    /\ pc = "new"
    /\ ser = "none"
    /\ ncalls = 0
    /\ nreads = 0
    /\ nwrites = 0
    /\ attempt = 0
    /\ ops = <<>>
    /\ tx = <<>>
    /\ inbuf = <<>>
    /\ pending = <<>>
    /\ rxbuf = <<>>
    /\ chunks = <<>>
    /\ left = 0
    /\ quiet = 0
    /\ result = "none"
    /\ raised = "none"
    /\ sent = <<>>
    /\ pauses = 0
    /\ pace = 0
    /\ cfg = NoSettings
    /\ stale = <<>>
    /\ phase = "none"
    /\ log = <<>>
    /\ cands = <<>>
    /\ outcome = NoOutcome

\* variables no transport step touches
idle_codec == <<origin, ncorrupt, flipped, masked, dec, variant, addr_in>>

\* a caller that makes a call while _send_frame is in its loop
caller_runs_during_poll == pc \in {"idle", "poll"}

\* the calls on the object are statements of one thread: the next call is
\* made when the one before it has returned
CallerRuns == pc = "idle"

\* meter = DLT645Protocol(port, address=address)
NewSessionBody ==
    /\ pc = "new"
    /\ addr_status' = _format_address(addr_in).status
    /\ address' = _format_address(addr_in).bytes
    /\ pc' = AfterInit(_format_address(addr_in).status)
    /\ UNCHANGED <<idle_codec, req, frame, response, parsed, parsed1>>
    /\ UNCHANGED <<ser, ncalls, nreads, nwrites, attempt, ops, tx, inbuf, pending,
                   rxbuf, chunks, left, quiet, result, raised>>
    /\ UNCHANGED <<sent, pauses, pace, cfg, stale>>

NewSession ==
    /\ NewSessionBody
    /\ UNCHANGED rvars

\* meter.connect(): a new serial.Serial, then reset_input_buffer()
ConnectBody ==
    /\ CallerRuns
    /\ ncalls' = ncalls + 1
    /\ ser' = "open"
    /\ inbuf' = <<>>
    /\ UNCHANGED <<idle_codec, addr_status, address, req, frame, response,
                   parsed, parsed1>>
    /\ UNCHANGED <<pc, nreads, nwrites, attempt, ops, tx, pending, rxbuf, chunks,
                   left, quiet, result, raised>>
    /\ cfg' = Settings(variant)
    /\ UNCHANGED <<sent, pauses, pace, stale>>

Connect ==
    /\ ncalls < MaxCalls
    /\ ConnectBody
    /\ UNCHANGED rvars

\* a disconnect that marks a channel closed that was never opened
closed_always(s) == "closed"

\* a disconnect that closes nothing
left_as_it_is(s) == s

\* if self.ser and self.ser.is_open: self.ser.close()
Closed(s) == IF s = "open" THEN "closed" ELSE s

\* meter.disconnect(): closes an open channel, otherwise does nothing
DisconnectBody ==
    /\ CallerRuns
    /\ ncalls' = ncalls + 1
    /\ ser' = Closed(ser)
    /\ inbuf' = <<>>
    /\ pending' = <<>>
    /\ UNCHANGED <<idle_codec, addr_status, address, req, frame, response,
                   parsed, parsed1>>
    /\ UNCHANGED <<pc, nreads, nwrites, attempt, ops, tx, rxbuf, chunks, left, quiet,
                   result, raised>>
    /\ UNCHANGED <<sent, pauses, pace, cfg, stale>>

Disconnect ==
    /\ ncalls < MaxCalls
    /\ DisconnectBody
    /\ UNCHANGED rvars

\* a frame built for another address than the object's
frame_for_reversed_address(id) ==
    _build_frame(Reversed(address), CMD_READ_DATA, id, <<>>)

\* frame = self._build_frame(self.CMD_READ_DATA, data_id)
FrameFor(id) == _build_frame(address, CMD_READ_DATA, id, <<>>)

\* a read_data without its except clause: the exception leaves every class
on_error_raise(p) == "raised"

\* what read_data returns when _send_frame or _parse_response raises:
\* dlt645_read.py lets the exception out, the other two return None
OnError(p) == IF p = "read" THEN "raised" ELSE "None"

\* meter.read_data of the session's next identifier on an open channel: the frame is built and
\* _send_frame starts its first attempt
ReadDataBody ==
    /\ CallerRuns
    /\ nreads < Len(SessionIds(variant))
    /\ nreads' = nreads + 1
    /\ ser = "open"
    /\ ncalls' = ncalls + 1
    /\ req' = [control |-> CMD_READ_DATA,
               data_id |-> SessionIds(variant)[nreads + 1], data |-> <<>>]
    /\ frame' = FrameFor(SessionIds(variant)[nreads + 1])
    /\ response' = <<>>
    /\ parsed' = NotParsed
    /\ parsed1' = NotParsed
    /\ pc' = "clear"
    /\ attempt' = 0
    /\ ops' = <<>>
    /\ tx' = <<>>
    /\ rxbuf' = <<>>
    /\ chunks' = <<>>
    /\ left' = 0
    /\ quiet' = 0
    /\ result' = "none"
    /\ raised' = "none"
    /\ UNCHANGED <<idle_codec, addr_status, address>>
    /\ UNCHANGED <<ser, nwrites, inbuf, pending>>
    /\ sent' = <<>>
    /\ pauses' = 0
    /\ pace' = 0
    /\ stale' = <<>>
    /\ UNCHANGED cfg

ReadData ==
    /\ ncalls < MaxCalls
    /\ ReadDataBody
    /\ UNCHANGED rvars

\* meter.read_data before connect() or after disconnect():
\* _send_frame raises "Serial port not open"
ReadDataNotOpenBody ==
    /\ CallerRuns
    /\ nreads < Len(SessionIds(variant))
    /\ nreads' = nreads + 1
    /\ ser # "open"
    /\ ncalls' = ncalls + 1
    /\ req' = [control |-> CMD_READ_DATA,
               data_id |-> SessionIds(variant)[nreads + 1], data |-> <<>>]
    /\ frame' = FrameFor(SessionIds(variant)[nreads + 1])
    /\ response' = <<>>
    /\ parsed' = NotParsed
    /\ parsed1' = NotParsed
    /\ ops' = <<>>
    /\ tx' = <<>>
    /\ rxbuf' = <<>>
    /\ chunks' = <<>>
    /\ left' = 0
    /\ quiet' = 0
    /\ result' = OnError(variant)
    /\ raised' = "Serial port not open"
    /\ UNCHANGED <<idle_codec, addr_status, address>>
    /\ attempt' = 0
    /\ UNCHANGED <<pc, ser, nwrites, inbuf, pending>>
    /\ sent' = <<>>
    /\ pauses' = 0
    /\ pace' = PaceMs(variant, FALSE)
    /\ stale' = <<>>
    /\ UNCHANGED cfg

ReadDataNotOpen ==
    /\ ncalls < MaxCalls
    /\ ReadDataNotOpenBody
    /\ UNCHANGED rvars

\* self.ser.reset_input_buffer() (and reset_output_buffer()), time.sleep
ClearBuffers ==
    /\ pc = "clear"
    /\ inbuf' = <<>>
    /\ ops' = <<"clear", "sleep">>
    /\ tx' = <<>>
    /\ pc' = StepAfter("clear")
    /\ UNCHANGED <<idle_codec, addr_status, address, req, frame, response,
                   parsed, parsed1>>
    /\ UNCHANGED <<ser, ncalls, nreads, nwrites, attempt, pending, rxbuf, chunks,
                   left, quiet, result, raised>>
    /\ stale' = <<>>
    /\ UNCHANGED <<sent, pauses, pace, cfg>>
    /\ UNCHANGED rvars

\* self.ser.write(wakeup), time.sleep
WriteWake ==
    /\ pc = "wake"
    /\ tx' = Append(tx, Wakeup)
    /\ nwrites' = nwrites + 1
    /\ ops' = ops \o <<"wake", "sleep">>
    /\ pc' = StepAfter("wake")
    /\ UNCHANGED <<idle_codec, addr_status, address, req, frame, response,
                   parsed, parsed1>>
    /\ UNCHANGED <<ser, ncalls, nreads, attempt, inbuf, pending, rxbuf, chunks, left,
                   quiet, result, raised>>
    /\ UNCHANGED <<sent, pauses, pace, cfg, stale>>
    /\ UNCHANGED rvars

\* self.ser.write(frame), time.sleep; the meter decides what it sends
WriteFrame(plan) ==
    /\ pc = "frame"
    /\ tx' = Append(tx, frame.bytes)
    /\ nwrites' = nwrites + 1
    /\ ops' = ops \o <<"frame", "sleep">>
    /\ pending' = pending \o plan
    /\ pc' = StepAfter("frame")
    /\ UNCHANGED <<idle_codec, addr_status, address, req, frame, response,
                   parsed, parsed1>>
    /\ UNCHANGED <<ser, ncalls, nreads, attempt, inbuf, rxbuf, chunks, left, quiet,
                   result, raised>>
    /\ sent' = Append(sent, frame.bytes)
    /\ stale' = inbuf
    /\ UNCHANGED <<pauses, pace, cfg>>
    /\ UNCHANGED rvars

\* response = bytearray(); timeout = time.time() + ceiling
BeginAccumulate ==
    /\ pc = "accumulate"
    /\ rxbuf' = <<>>
    /\ chunks' = <<>>
    /\ left' = CeilingTicks(variant)
    /\ quiet' = 0
    /\ ops' = Append(ops, "accumulate")
    /\ pc' = "poll"
    /\ UNCHANGED <<idle_codec, addr_status, address, req, frame, response,
                   parsed, parsed1>>
    /\ UNCHANGED <<ser, ncalls, nreads, nwrites, attempt, tx, inbuf, pending,
                   result, raised>>
    /\ UNCHANGED <<sent, pauses, pace, cfg, stale>>
    /\ UNCHANGED rvars

\* a poll that keeps the deadline it had
poll_without_reset ==
    /\ rxbuf' = rxbuf \o inbuf
    /\ chunks' = IF inbuf # <<>> THEN Append(chunks, inbuf) ELSE chunks
    /\ inbuf' = <<>>
    /\ left' = left - 1
    /\ quiet' = IF inbuf # <<>> THEN 1 ELSE quiet + 1

\* one turn of `while time.time() < timeout`: read what is waiting and
\* move the deadline, then time.sleep(0.05)
PollBody ==
    IF inbuf # <<>>
    THEN /\ rxbuf' = IF Len(rxbuf) + Len(inbuf) <= RxCap
                      THEN rxbuf \o inbuf ELSE rxbuf
         /\ chunks' = IF Len(rxbuf) + Len(inbuf) <= RxCap
                       THEN Append(chunks, inbuf) ELSE chunks
         /\ inbuf' = <<>>
         /\ left' = InactivityTicks - 1
         /\ quiet' = 1
    ELSE /\ left' = left - 1
         /\ quiet' = quiet + 1
         /\ UNCHANGED <<rxbuf, chunks, inbuf>>

Poll ==
    /\ pc = "poll"
    /\ left > 0
    /\ PollBody
    /\ UNCHANGED <<idle_codec, addr_status, address, req, frame, response,
                   parsed, parsed1>>
    /\ UNCHANGED <<pc, ser, ncalls, nreads, nwrites, attempt, ops, tx, pending,
                   result, raised>>
    /\ UNCHANGED <<sent, pauses, pace, cfg, stale>>
    /\ UNCHANGED rvars

\* the loop is over and bytes were read: return bytes(response)
ReturnResponse ==
    /\ pc = "poll"
    /\ left = 0
    /\ rxbuf # <<>>
    /\ response' = rxbuf
    /\ pc' = "parse"
    /\ UNCHANGED <<idle_codec, addr_status, address, req, frame, parsed,
                   parsed1>>
    /\ UNCHANGED <<ser, ncalls, nreads, nwrites, attempt, ops, tx, inbuf, pending,
                   rxbuf, chunks, left, quiet, result, raised>>
    /\ UNCHANGED <<sent, pauses, pace, cfg, stale>>
    /\ UNCHANGED rvars

\* the loop is over with nothing read and attempts are left:
\* time.sleep(1.0), next attempt
RetryAttempt ==
    /\ pc = "poll"
    /\ left = 0
    /\ rxbuf = <<>>
    /\ attempt < Retries(variant) - 1
    /\ attempt' = attempt + 1
    /\ pc' = "clear"
    /\ UNCHANGED <<idle_codec, addr_status, address, req, frame, response,
                   parsed, parsed1>>
    /\ UNCHANGED <<ser, ncalls, nreads, nwrites, ops, tx, inbuf, pending, rxbuf,
                   chunks, left, quiet, result, raised>>
    /\ pauses' = pauses + 1
    /\ UNCHANGED <<sent, pace, cfg, stale>>
    /\ UNCHANGED rvars

\* the last attempt is over with nothing read:
\* raise Exception("No response from meter")
NoResponse ==
    /\ pc = "poll"
    /\ left = 0
    /\ rxbuf = <<>>
    /\ attempt >= Retries(variant) - 1
    /\ result' = OnError(variant)
    /\ raised' = "No response from meter"
    /\ pc' = "idle"
    /\ UNCHANGED <<idle_codec, addr_status, address, req, frame, response,
                   parsed, parsed1>>
    /\ UNCHANGED <<ser, ncalls, nreads, nwrites, attempt, ops, tx, inbuf, pending,
                   rxbuf, chunks, left, quiet>>
    /\ pace' = PaceMs(variant, FALSE)
    /\ UNCHANGED <<sent, pauses, cfg>>
    /\ UNCHANGED rvars
    /\ stale' = <<>>

\* parsed = self._parse_response(response); read_data returns it
ParseResponse ==
    /\ pc = "parse"
    /\ parsed' = IF variant = "read" THEN _parse_response(response) ELSE parsed
    /\ parsed1' = IF variant = "read" THEN parsed1
                  ELSE _parse_response_1(response)
    /\ LET p == IF variant = "read" THEN _parse_response(response)
                ELSE _parse_response_1(response)
       IN  /\ result' = IF p.status = "ok" THEN "parsed" ELSE OnError(variant)
           /\ raised' = IF p.status = "ok" THEN "none" ELSE p.status
    /\ pc' = "idle"
    /\ UNCHANGED <<idle_codec, addr_status, address, req, frame, response>>
    /\ UNCHANGED <<ser, ncalls, nreads, nwrites, attempt, ops, tx, inbuf, pending,
                   rxbuf, chunks, left, quiet>>
    /\ pace' = PaceMs(variant, (IF variant = "read" THEN _parse_response(response)
                                   ELSE _parse_response_1(response)).status = "ok")
    /\ UNCHANGED <<sent, pauses, cfg>>
    /\ UNCHANGED rvars
    /\ stale' = <<>>

\* the next chunk of the meter reaches the input buffer
Arrive ==
    /\ ser = "open"
    /\ pending # <<>>
    /\ inbuf' = inbuf \o Head(pending)
    /\ pending' = Tail(pending)
    /\ UNCHANGED <<idle_codec, addr_status, address, req, frame, response,
                   parsed, parsed1>>
    /\ UNCHANGED <<pc, ser, ncalls, nreads, nwrites, attempt, ops, tx, rxbuf, chunks,
                   left, quiet, result, raised>>
    /\ UNCHANGED <<sent, pauses, pace, cfg, stale>>
    /\ UNCHANGED rvars

NextSession ==
    \/ NewSession
    \/ Connect
    \/ Disconnect
    \/ ReadData
    \/ ReadDataNotOpen
    \/ ClearBuffers
    \/ WriteWake
    \/ \E plan \in Plans(MaxPending - Len(pending)) : WriteFrame(plan)
    \/ BeginAccumulate
    \/ Poll
    \/ ReturnResponse
    \/ RetryAttempt
    \/ NoResponse
    \/ ParseResponse
    \/ Arrive

SpecSession == InitSession /\ [][NextSession]_vars

---------------------------------------------------------------------------
(* One exchange on a line that may deliver bytes for ever                  *)

\* the line delivers a byte while the channel is open: a meter that keeps
\* sending, or noise
Babble ==
    /\ ser = "open"
    /\ inbuf = <<>>
    /\ inbuf' = <<FRAME_END>>
    /\ UNCHANGED <<idle_codec, addr_status, address, req, frame, response,
                   parsed, parsed1>>
    /\ UNCHANGED <<pc, ser, ncalls, nreads, nwrites, attempt, ops, tx, rxbuf, chunks,
                   left, quiet, result, raised, pending>>
    /\ UNCHANGED <<sent, pauses, pace, cfg, stale>>
    /\ UNCHANGED rvars

\* the statements of read_data from its call to its return
ExchangeStep ==
    \/ ClearBuffers
    \/ WriteWake
    \/ WriteFrame(<<>>)
    \/ BeginAccumulate
    \/ Poll
    \/ ReturnResponse
    \/ RetryAttempt
    \/ NoResponse
    \/ ParseResponse

NextLive ==
    \/ NewSession
    \/ Connect
    \/ ReadData
    \/ ExchangeStep
    \/ Babble

\* the thread that runs read_data keeps running: a statement that can be
\* executed is executed
SpecLive == InitSession /\ [][NextLive]_vars /\ WF_vars(ExchangeStep)

---------------------------------------------------------------------------
(* One object on a line that garbles replies and a port whose operations   *)
(* may raise                                                               *)

\* the identifier a meter answers with when it answers for another one
OtherId(id) == IF id = DI_VOLTAGE THEN DI_CURRENT ELSE DI_VOLTAGE

\* what reaches the client after a frame, in one chunk: nothing, one byte,
\* the reply, the reply with its first byte, its length byte or its
\* checksum damaged, a frame whose data byte is below 0x33 on the wire,
\* the reply to another identifier
FaultyPlans ==
    IF pending = <<>>
    THEN {<<>>,
          <<(<<FRAME_END>>)>>,
          <<Reply>>,
          <<SetAt(Reply, 0, 0)>>,
          <<SetAt(Reply, 9, At(Reply, 9) + 8)>>,
          <<SetAt(Reply, Len(Reply) - 2, (At(Reply, Len(Reply) - 2) + 1) % 256)>>,
          <<MeterFrame(address, 145, req.data_id, <<205>>)>>,
          <<MeterFrame(address, 145, OtherId(req.data_id), ReplyPayload)>>}
    ELSE {<<>>}

\* a _send_frame that swallows the exception of every attempt
swallowed_always(p, a) == TRUE

\* except Exception: `if attempt < retries - 1` sleeps and goes on, else
\* the exception is raised again
Swallowed(p, a) == a < Retries(p) - 1

\* reset_input_buffer, write, in_waiting or read raises during an attempt
SerialFault ==
    /\ pc \in {"clear", "wake", "frame", "poll"}
    /\ pc = "poll" => left > 0
    /\ IF Swallowed(variant, attempt)
       THEN /\ attempt' = attempt + 1
            /\ pauses' = pauses + 1
            /\ pc' = "clear"
            /\ UNCHANGED <<result, raised, pace>>
       ELSE /\ result' = OnError(variant)
            /\ raised' = "SerialException"
            /\ pace' = PaceMs(variant, FALSE)
            /\ pc' = "idle"
            /\ UNCHANGED <<attempt, pauses>>
    /\ UNCHANGED <<idle_codec, addr_status, address, req, frame, response,
                   parsed, parsed1>>
    /\ UNCHANGED <<ser, ncalls, nreads, nwrites, ops, tx, inbuf, pending, rxbuf,
                   chunks, left, quiet, sent, cfg, stale>>
    /\ UNCHANGED rvars

NextFaulty ==
    \/ NewSession
    \/ Connect
    \/ ReadData
    \/ ClearBuffers
    \/ WriteWake
    \/ \E plan \in FaultyPlans : WriteFrame(plan)
    \/ BeginAccumulate
    \/ Poll
    \/ ReturnResponse
    \/ RetryAttempt
    \/ NoResponse
    \/ ParseResponse
    \/ Arrive
    \/ SerialFault

SpecFaulty == InitSession /\ [][NextFaulty]_vars

---------------------------------------------------------------------------
(* The session functions: read_meter_dlt645 of dlt645_read.py,             *)
(* read_all_meter_data of dlt645_read_1.py, read_meter of                  *)
(* dlt645_single_phase.py.  Each makes an object, connects, reads its      *)
(* list of identifiers in order, disconnects and returns.  A statement     *)
(* between two reads may raise (a print on a closed or non-UTF-8 stdout),  *)
(* connect may raise before or after the port is open.                     *)

\* identifiers a session function reads: the first MaxReads of its list
MaxReads == 3

\* addresses read_meter_dlt645 tries when it is given none: the first
\* MaxCandidates of its list
MaxCandidates == 2

\* addresses_to_try of read_meter_dlt645 when address is None
DefaultCandidates ==
    <<BroadcastAddress,
      <<"0","0","0","2","7","0","2","3","5","0","0","0">>,
      <<"2","7","0","2","3","5","0","0","0","0","0","0">>,
      [i \in 1..AddrDigits |-> "0"],
      [i \in 1..AddrDigits |-> "9"]>>

\* the reply of a meter that has the register: control 0x91, the
\* identifier, four BCD bytes
GoodReply == MeterFrame(address, 145, req.data_id, EnergyExample)

\* the reply of a meter that does not have the register: control 0xD1 and
\* one error byte
ErrorReply == MeterFrame(address, 209, NoId, <<2>>)

\* what the meter sends after a frame of a session function: nothing, one
\* byte of noise, or one of the two replies in one chunk; the line is
\* half-duplex and the meter sends nothing new while a chunk is on its way
RunPlans ==
    IF pending = <<>>
    THEN {<<>>, <<(<<FRAME_END>>)>>, <<GoodReply>>, <<ErrorReply>>}
    ELSE {<<>>}

\* the decoder the session function applies to its k-th read
ValueOf(p, k, data) ==
    CASE p = "read" /\ k = 2 -> decode_voltage(data)
      [] p = "read" /\ k = 3 -> decode_current(data)
      [] OTHER -> decode_energy(data)

\* what read_data returned, as the session function sees it
Returned(p) == IF p = "read" THEN parsed ELSE parsed1

\* whether the session function has a value for its k-th read:
\* `energy is not None` inside try/except in read_meter_dlt645, `if result:`
\* and `if energy:` in read_all_meter_data, `if result and result['data']:`
\* and `value is not None` in read_meter
Kept(p, k, res, data) ==
    /\ res = "parsed"
    /\ CASE p = "read" -> ValueOf(p, k, data).status = "value"
         [] p = "read_1" -> Truthy(ValueOf(p, k, data))
         [] OTHER -> data # <<>> /\ ValueOf(p, k, data).status = "value"

\* a session function that gives up at the first failed read
after_read_abort(res, n) ==
    IF res # "parsed" THEN "handler" ELSE IF n < MaxReads THEN "read" ELSE "close"

\* where the session function goes after its n-th read returned: to the
\* next read_data, after the last one to disconnect
AfterRead(res, n) == IF n < MaxReads THEN "read" ELSE "close"

\* data_log['readings'] of read_all_meter_data; the other two session
\* functions return a truth value only
Readings(p, l) ==
    IF p = "read_1" THEN SelectSeq(l, LAMBDA e : e.kept) ELSE <<>>

InitRun ==
    /\ addr_status = "unset"
    /\ address = <<>>
    /\ req = NoReq
    /\ frame = NoFrame
    /\ response = <<>>
    /\ origin = "none"
    /\ ncorrupt = 0
    /\ flipped = <<>>
    /\ parsed = NotParsed
    /\ parsed1 = NotParsed
    /\ masked = NoMask
    /\ dec = NoDec
    /\ variant \in Transports
    /\ \/ addr_in \in SessionInputs /\ cands = <<>>
       \/ /\ variant = "read"
          /\ addr_in = DefaultCandidates[1]
          /\ cands = SubSeq(DefaultCandidates, 2, MaxCandidates)
    /\ pc = "new"
    /\ ser = "none"
    /\ ncalls = 0
    /\ nreads = 0
    /\ nwrites = 0
    /\ attempt = 0
    /\ ops = <<>>
    /\ tx = <<>>
    /\ inbuf = <<>>
    /\ pending = <<>>
    /\ rxbuf = <<>>
    /\ chunks = <<>>
    /\ left = 0
    /\ quiet = 0
    /\ result = "none"
    /\ raised = "none"
    /\ sent = <<>>
    /\ pauses = 0
    /\ pace = 0
    /\ cfg = NoSettings
    /\ stale = <<>>
    /\ phase = "start"
    /\ log = <<>>
    /\ outcome = NoOutcome

\* meter = DLT645Protocol(port, address=...): outside the try block in
\* read_all_meter_data and read_meter, inside it in read_meter_dlt645
SessionConstruct ==
    /\ phase = "start"
    /\ NewSessionBody
    /\ phase' = IF _format_address(addr_in).status = "ok" THEN "connect"
                ELSE IF variant = "read" THEN "handler" ELSE "returned"
    /\ outcome' = IF _format_address(addr_in).status = "ok" \/ variant = "read"
                  THEN outcome
                  ELSE [value |-> "ValueError", readings |-> <<>>]
    /\ UNCHANGED <<log, cands>>

\* meter.connect()
SessionConnect ==
    /\ phase = "connect"
    /\ ConnectBody
    /\ phase' = "read"
    /\ UNCHANGED <<log, cands, outcome>>

\* meter.connect() raises: serial.Serial(...) fails and no port is open, or
\* a statement after it fails and the port is open
SessionConnectFails(opened) ==
    /\ phase = "connect"
    /\ ser' = IF opened THEN "open" ELSE ser
    /\ cfg' = IF opened THEN Settings(variant) ELSE cfg
    /\ phase' = "handler"
    /\ UNCHANGED <<cvars, dvars, log, cands, outcome>>
    /\ UNCHANGED <<variant, pc, ncalls, nreads, nwrites, attempt, ops, tx, inbuf,
                   pending, rxbuf, chunks, left, quiet, result, raised, sent,
                   pauses, pace, stale>>

\* result = meter.read_data(...) of the next identifier
SessionRead ==
    /\ phase = "read"
    /\ ReadDataBody
    /\ phase' = "record"
    /\ UNCHANGED <<log, cands, outcome>>

\* read_data has returned: the statements that decode, print and store
SessionRecord ==
    /\ phase = "record"
    /\ pc = "idle"
    /\ LET data == Returned(variant).data
           kept == Kept(variant, nreads, result, data)
       IN  log' = Append(log,
                    [id |-> req.data_id, how |-> result, err |-> raised,
                     kept |-> kept,
                     value |-> IF kept THEN ValueOf(variant, nreads, data)
                               ELSE NoFloat])
    /\ phase' = AfterRead(result, nreads)
    /\ UNCHANGED <<cvars, dvars, svars, cands, outcome>>

\* a statement between two calls raises
SessionFault ==
    /\ phase \in {"read", "close"}
    /\ phase' = "handler"
    /\ UNCHANGED <<cvars, dvars, svars, log, cands, outcome>>

\* meter.disconnect() and the return of the session function
SessionClose ==
    /\ phase = "close"
    /\ DisconnectBody
    /\ phase' = "returned"
    /\ outcome' = [value |-> "True", readings |-> Readings(variant, log)]
    /\ UNCHANGED <<log, cands>>

\* except Exception: meter.disconnect() inside try/except; then
\* read_meter_dlt645 goes to its next address or returns False, the other
\* two return False
SessionHandler ==
    /\ phase = "handler"
    /\ ser' = Closed(ser)
    /\ inbuf' = <<>>
    /\ pending' = <<>>
    /\ IF variant = "read" /\ cands # <<>>
       THEN /\ addr_in' = Head(cands)
            /\ cands' = Tail(cands)
            /\ addr_status' = "unset"
            /\ address' = <<>>
            /\ pc' = "new"
            /\ ncalls' = 0
            /\ nreads' = 0
            /\ result' = "none"
            /\ raised' = "none"
            /\ log' = <<>>
            /\ phase' = "start"
            /\ UNCHANGED outcome
       ELSE /\ phase' = "returned"
            /\ outcome' = [value |-> "False", readings |-> <<>>]
            /\ UNCHANGED <<addr_in, cands, addr_status, address, pc, ncalls,
                           nreads, result, raised, log>>
    /\ UNCHANGED <<req, frame, response, origin, ncorrupt, flipped, parsed,
                   parsed1, masked, dec>>
    /\ UNCHANGED <<variant, nwrites, attempt, ops, tx, rxbuf, chunks, left, quiet,
                   sent, pauses, pace, cfg, stale>>

NextRun ==
    \/ SessionConstruct
    \/ SessionConnect
    \/ \E opened \in BOOLEAN : SessionConnectFails(opened)
    \/ SessionRead
    \/ SessionRecord
    \/ SessionFault
    \/ SessionClose
    \/ SessionHandler
    \/ ClearBuffers
    \/ WriteWake
    \/ \E plan \in RunPlans : WriteFrame(plan)
    \/ BeginAccumulate
    \/ Poll
    \/ ReturnResponse
    \/ RetryAttempt
    \/ NoResponse
    \/ ParseResponse
    \/ Arrive

SpecRun == InitRun /\ [][NextRun]_vars

\* the reply of a meter whose register holds zero: four BCD bytes 00
ZeroReply == MeterFrame(address, 145, req.data_id, <<0, 0, 0, 0>>)

\* what the meter sends after a frame when its registers may hold zero
ZeroPlans ==
    IF pending = <<>>
    THEN {<<>>, <<GoodReply>>, <<ZeroReply>>}
    ELSE {<<>>}

\* the session functions against a meter whose registers may hold zero
NextZero ==
    \/ SessionConstruct
    \/ SessionConnect
    \/ SessionRead
    \/ SessionRecord
    \/ SessionFault
    \/ SessionClose
    \/ SessionHandler
    \/ ClearBuffers
    \/ WriteWake
    \/ \E plan \in ZeroPlans : WriteFrame(plan)
    \/ BeginAccumulate
    \/ Poll
    \/ ReturnResponse
    \/ RetryAttempt
    \/ NoResponse
    \/ ParseResponse
    \/ Arrive

SpecZero == InitRun /\ [][NextZero]_vars

---------------------------------------------------------------------------
(* Claims on the transport and the session                                 *)

IsPrefix(s, t) == Len(s) <= Len(t) /\ s = SubSeq(t, 1, Len(s))

\* an object exists: construction was tried and did not fail
Constructed == pc \notin {"none", "new", "aborted"}

\* C12: an address-format error is fatal at session construction: when
\* _format_address fails inside __init__, the session for that address
\* never opens the serial channel and never writes a wake preamble or a
\* frame.
C12_AddressErrorFatal ==
    addr_status = "ValueError" =>
        /\ ser = "none"
        /\ nwrites = 0
        /\ tx = <<>>

\* construction failed on the address "G" and the client was stopped
C12_Witness ==
    /\ addr_in = <<"G">>
    /\ addr_status = "ValueError"
    /\ pc = "aborted"

\* C13: the address is computed once at construction and never changes:
\* after any sequence of connect, read_data, _send_frame and disconnect
\* self.address is what _format_address gave at construction, and bytes
\* 1..6 of every frame built and of every frame written equal it.
C13_AddressImmutable ==
    Constructed =>
        /\ address = _format_address(addr_in).bytes
        /\ frame.status = "ok" => Slice(frame.bytes, 1, 7) = address
        /\ Len(tx) >= 2 => Slice(tx[2], 1, 7) = address

\* connect, a successful read_data and disconnect were called on the
\* object of address "000270235000"
C13_Witness ==
    /\ ncalls = 3
    /\ ser = "closed"
    /\ result = "parsed"
    /\ address = <<0, 80, 35, 112, 2, 0>>
    /\ Slice(frame.bytes, 1, 7) = <<0, 80, 35, 112, 2, 0>>

\* the statements of one attempt, waits included
AttemptOps ==
    <<"clear", "sleep", "wake", "sleep", "frame", "sleep", "accumulate">>

\* C19: in every attempt of every exchange the input buffer is cleared,
\* the wake preamble FE FE FE FE is written, a wait follows, the frame is
\* written and only then accumulation starts: a frame is never written
\* without the preamble before it in the same attempt, and accumulation
\* never starts before the frame is written.
C19_AttemptOrder ==
    /\ IsPrefix(ops, AttemptOps)
    /\ IsPrefix(tx, <<Wakeup, frame.bytes>>)
    /\ Len(tx) = Cardinality({i \in 1..Len(ops) : ops[i] \in {"wake", "frame"}})
    /\ pc = "poll" => (ops = AttemptOps /\ tx = <<(<<254, 254, 254, 254>>), frame.bytes>>)

\* the second attempt of a call has read bytes
C19_Witness ==
    /\ attempt = 1
    /\ pc = "poll"
    /\ rxbuf # <<>>
    /\ ops = AttemptOps

ParseFailed ==
    raised \notin {"none", "No response from meter", "Serial port not open"}

\* C21: retry on a parse failure: when the bytes received fail parsing and
\* attempts remain, read_data repeats the full wake/send/accumulate
\* sequence before it reports failure, so a call that ended on a parse
\* failure has written its frame in every attempt _send_frame allows.
C21_RetryOnParseFailure ==
    (pc = "idle" /\ ParseFailed) => Len(sent) = Retries(variant)

C26_Pacing ==
    (variant # "read" /\ pc = "idle" /\ result # "none") =>
        /\ pace > 0
        /\ result = "parsed" =>
              pace = (IF variant = "read_1" THEN 1500 ELSE 300)
        /\ result = "None" =>
              pace < (IF variant = "read_1" THEN 1500 ELSE 300)

\* a read of dlt645_read_1.py got no response, another one a reply
C26_Witness ==
    /\ variant = "read_1"
    /\ nreads = 2
    /\ pc = "idle"
    /\ result = "None"
    /\ raised = "No response from meter"
    /\ pace = 500

\* C27: exchanges are strictly sequential: a read_data call starts only
\* when the call before it has returned, bytes are written only in the
\* wake and frame steps of the running attempt and never while the loop
\* accumulates, and what is written for read k is the wake preamble or the
\* frame of read k.
C27_Sequential ==
    [][/\ nreads' # nreads => pc = "idle"
       /\ nwrites' # nwrites =>
             /\ pc \in {"wake", "frame"}
             /\ nwrites' = nwrites + 1
             /\ tx' = Append(tx, IF pc = "wake" THEN <<254, 254, 254, 254>>
                                 ELSE FrameFor(SessionIds(variant)[nreads]).bytes)
       /\ pc \in {"accumulate", "poll", "parse"} =>
             (tx' = tx /\ nwrites' = nwrites)]_vars

\* the frame of the second read is written and its loop runs
C27_Witness ==
    /\ nreads = 2
    /\ pc = "poll"
    /\ Len(sent) = 1
    /\ nwrites = 4

\* C29: every connect() opens the channel with 8 data bits, even parity
\* and 1 stop bit, at 9600 baud unless another rate is given.
C29_SerialSettings ==
    ser = "open" =>
        cfg = [baudrate |-> 9600, bytesize |-> 8, parity |-> "E", stopbits |-> 1]

\* f is the 16-byte read request of identifier id to address a
ReadRequest(f, a, id) ==
    /\ Len(f) = 16
    /\ f[1] = 104
    /\ SubSeq(f, 2, 7) = a
    /\ f[8] = 104
    /\ f[9] = 17
    /\ f[10] = 4
    /\ \A i \in 1..4 : f[10 + i] = id[5 - i] + 51
    /\ f[15] = Sum(SubSeq(f, 1, 14)) % 256
    /\ f[16] = 22

\* C30: every frame a session writes is a read request for one identifier
\* of its list: 16 bytes, control code 0x11, length 4, and data bytes
\* 10..13 the identifier least significant byte first, each plus 0x33;
\* for address "000000000001" and identifier 0x00000000 the frame is
\* 68 01 00 00 00 00 00 68 11 04 33 33 33 33 B2 16.
C30_ReadRequests ==
    /\ \A i \in 1..Len(sent) :
          ReadRequest(sent[i], address, SessionIds(variant)[nreads])
    /\ Len(tx) = 2 => ReadRequest(tx[2], address, SessionIds(variant)[nreads])
    /\ _build_frame(_format_address(DefaultAddress).bytes, CMD_READ_DATA,
                    DI_TOTAL_ACTIVE_ENERGY, <<>>).bytes
          = <<104, 1, 0, 0, 0, 0, 0, 104, 17, 4, 51, 51, 51, 51, 178, 22>>

\* the frame of the second identifier was written twice
C30_Witness ==
    /\ nreads = 2
    /\ Len(sent) = 2
    /\ sent[2] = FrameFor(SessionIds(variant)[2]).bytes

\* a read_data call has not returned
InExchange == pc \in {"clear", "wake", "frame", "accumulate", "poll", "parse"}

\* C23: every exchange terminates, for every behaviour of the meter and
\* the line: silent, a finite response, or bytes that keep arriving with
\* gaps shorter than the inactivity window; every read_data call that was
\* made returns.
C23_ExchangeTerminates == InExchange ~> (pc = "idle")

---------------------------------------------------------------------------
(* Claims on the session functions                                         *)

\* the entries of l for which the session function has a value
KeptEntries(l) == {i \in 1..Len(l) : l[i].kept}

C24_State ==
    /\ Len(log) <= MaxReads
    /\ \A i \in 1..Len(log) :
          /\ log[i].id = SessionIds(variant)[i]
          /\ log[i].kept => log[i].how = "parsed"
    /\ phase = "close" => Len(log) = MaxReads
    /\ (phase = "returned" /\ outcome.value = "True") =>
          /\ Len(log) = MaxReads
          /\ variant = "read_1" =>
                /\ Len(outcome.readings) = Cardinality(KeptEntries(log))
                /\ {outcome.readings[j].id : j \in 1..Len(outcome.readings)}
                      = {log[i].id : i \in KeptEntries(log)}

C24_Step ==
    /\ (nreads' # nreads /\ phase # "handler") =>
          /\ nreads' = nreads + 1
          /\ Len(log) = nreads
          /\ req'.data_id = SessionIds(variant)[nreads']
    /\ (phase = "record" /\ phase' # phase) =>
          /\ phase' \in {"read", "close"}
          /\ Len(log') = Len(log) + 1
          /\ SubSeq(log', 1, Len(log)) = log
    /\ (phase = "close" /\ phase' = "returned") => outcome'.value = "True"

\* C24: registers are independently optional: whatever reads fail (no
\* response, malformed reply, nothing decodable), the session function
\* requests every identifier of its list exactly once and in the list's
\* order, a failed read leaves only its own identifier without a value,
\* and the session ends without a failure of its own; with three
\* identifiers of which the second times out, two have a value and one
\* has none.
C24_IndependentRegisters == []C24_State /\ [][C24_Step]_vars

\* read_all_meter_data returned after a session whose second read timed
\* out and whose other reads gave a value
C24_Witness ==
    /\ variant = "read_1"
    /\ phase = "returned"
    /\ outcome.value = "True"
    /\ Len(log) >= 3
    /\ log[2].err = "No response from meter"
    /\ KeptEntries(log) = (1..Len(log)) \ {2}
    /\ Len(outcome.readings) = Len(log) - 1

\* every read of the session got no response
AllSilent ==
    /\ phase = "returned"
    /\ Len(log) = MaxReads
    /\ \A i \in 1..Len(log) : log[i].err = "No response from meter"

\* every read of the session got a valid frame and no value came of it
AllUndecodable ==
    /\ phase = "returned"
    /\ Len(log) = MaxReads
    /\ \A i \in 1..Len(log) : log[i].how = "parsed" /\ ~log[i].kept

\* what a session function returns when every read got no response and
\* no statement raised
SilentOutcome == [value |-> "True", readings |-> <<>>]

\* C25: total failure is distinguishable: what a session returns when
\* every read got no response differs from what it returns when every
\* read got a valid frame of which nothing could be decoded.
C25_TotalFailureDistinct ==
    /\ (AllSilent /\ outcome.value # "False") => outcome = SilentOutcome
    /\ AllUndecodable => outcome # SilentOutcome

\* C28: the channel is opened once, before the first exchange, and stays
\* open between the reads; on every way out of read_all_meter_data,
\* read_meter and read_meter_dlt645 (normal return, or an exception after
\* connect) it is closed when the function returns, and in
\* read_meter_dlt645 the channel of one candidate address is closed before
\* the next candidate's is opened.
C28_ChannelLifecycle ==
    /\ phase = "returned" => ser # "open"
    /\ phase \in {"start", "connect"} => ser # "open"
    /\ phase \in {"read", "record", "close"} =>
          /\ ser = "open"
          /\ ncalls = 1 + nreads
    /\ InExchange => ser = "open"

\* read_meter_dlt645 gave up on its last candidate after an exchange
C28_Witness ==
    /\ variant = "read"
    /\ phase = "returned"
    /\ outcome.value = "False"
    /\ addr_in = DefaultCandidates[MaxCandidates]
    /\ nwrites > 0
    /\ ser = "closed"

---------------------------------------------------------------------------
(* Claims on garbled replies, late bytes and failing port operations       *)

\* C31: read_data of dlt645_read_1.py and of dlt645_single_phase.py never
\* lets an exception out: whatever bytes the channel delivers (fewer than
\* 12, wrong markers, a declared length beyond the bytes present, a bad
\* checksum, masked data bytes below 0x33) and when it delivers nothing,
\* the call returns a parsed result or None.
C31_NoExceptionEscapes ==
    (variant # "read" /\ pc = "idle" /\ nreads > 0) =>
        /\ result \in {"parsed", "None"}
        /\ result = "parsed" <=> raised = "none"
        /\ result = "parsed" <=> parsed1.status = "ok"

\* read_data of dlt645_read_1.py returned None for a frame with a data
\* byte below 0x33
C31_Witness ==
    /\ variant = "read_1"
    /\ pc = "idle"
    /\ response = MeterFrame(address, 145, req.data_id, <<205>>)
    /\ raised = "ValueError"
    /\ result = "None"

\* C32: whenever read_data(id) returns a present result, the identifier
\* echoed in it equals the requested one; a valid frame that echoes another
\* identifier, or carries fewer than 4 data bytes, is never returned.
C32_EchoedIdentifier ==
    (pc = "idle" /\ nreads > 0 /\ result = "parsed") =>
        Returned(variant).data_id = req.data_id

\* C33: the response _send_frame returns holds only bytes that arrived
\* after the frame of that exchange was written: bytes that arrive between
\* the clearing of the input buffer and the write of the frame never become
\* part of the response.
C33_OnlyFreshBytes ==
    pc = "parse" => stale = <<>>

\* C36: read_meter_dlt645 returns True for a candidate only if at least one
\* of its reads returned a valid parsed response; when every read fails the
\* next candidate is tried.
C36_TrueNeedsAParsedRead ==
    (variant = "read" /\ phase = "returned" /\ outcome.value = "True") =>
        \E i \in 1..Len(log) : log[i].how = "parsed"

\* the statement _send_frame is at can raise: a port operation is running
AtPortOperation ==
    \/ pc \in {"clear", "wake", "frame"}
    \/ pc = "poll" /\ left > 0

C37_State ==
    variant # "read" =>
        /\ attempt < Retries(variant)
        /\ Len(sent) <= Retries(variant)
        /\ raised = "SerialException" =>
              /\ attempt = Retries(variant) - 1
              /\ pc = "idle"
              /\ result = "None"

C37_Step ==
    (variant # "read" /\ AtPortOperation) =>
        /\ attempt' # attempt =>
              /\ attempt < Retries(variant) - 1
              /\ attempt' = attempt + 1
              /\ pauses' = pauses + 1
              /\ pc' = "clear"
              /\ raised' = "none"
        /\ pc' = "idle" =>
              /\ attempt = Retries(variant) - 1
              /\ raised' = "SerialException"
              /\ pauses' = pauses
              /\ sent' = sent

\* C37: in _send_frame of dlt645_read_1.py and dlt645_single_phase.py with
\* retries = N, an exception raised by a port operation in an attempt that
\* is not the last is swallowed and followed, after a pause, by the next
\* attempt; in the last attempt it goes unchanged to read_data; there are
\* never more than N attempts.
C37_RetryOnException ==
    []C37_State /\ [][C37_Step]_vars

\* dlt645_single_phase.py is polling in its second attempt after a port
\* operation of the first raised before the frame was written
C37_Witness ==
    /\ variant = "single_phase"
    /\ attempt = 1
    /\ pauses = 1
    /\ pc = "poll"
    /\ Len(sent) = 1

C39_Step ==
    /\ (CallerRuns /\ ser # "open" /\ nreads' = nreads + 1) =>
          /\ raised' = "Serial port not open"
          /\ result' = OnError(variant)
          /\ sent' = <<>>
          /\ tx' = <<>>
          /\ nwrites' = nwrites
          /\ ser' = ser
          /\ pc' = pc
    /\ (CallerRuns /\ ser # "open" /\ ncalls' = ncalls + 1
          /\ nreads' = nreads /\ ser' # "open") =>
          /\ ser' = ser
          /\ nwrites' = nwrites
          /\ sent' = sent

\* C39: _send_frame called while the channel is not open raises and writes
\* neither the wake-up bytes nor the frame; disconnect on a channel that
\* was never opened, or a second disconnect in a row, does nothing and
\* leaves the channel closed.
C39_NotOpen ==
    [][C39_Step]_vars

\* a channel that was never opened was disconnected twice and a read on
\* it was refused
C39_Witness ==
    /\ ser = "none"
    /\ pc = "idle"
    /\ raised = "Serial port not open"
    /\ nreads = 1
    /\ ncalls = 3
    /\ nwrites = 0

\* C34: in read_all_meter_data every register that was read and whose
\* payload decodes to a value, zero included (00 00 00 00 for the reverse
\* active energy), is recorded in data_log['readings']; a register is left
\* out only when its read failed or its decoder returned None.
C34_DecodedValueRecorded ==
    (/\ variant = "read_1"
     /\ phase = "returned"
     /\ outcome.value = "True"
     /\ result = "parsed"
     /\ decode_energy(parsed1.data).status = "value") =>
        \E j \in 1..Len(outcome.readings) :
            outcome.readings[j].id = req.data_id

\* C35: no corruption of a single bit of a frame built by _build_frame is
\* accepted by _parse_response of dlt645_read_1.py and of
\* dlt645_single_phase.py.
C35_SingleBitRejected ==
    (origin = "echo" /\ flipped # <<>> /\ parsed1 # NotParsed) =>
        parsed1.status # "ok"

\* the identifier and the empty payload a builder of the other classes was
\* called with, given to the builder of the first class of dlt645_read.py
FirstClassFrame == _build_frame(address, req.control, req.data_id, <<>>)

\* C38: the frame builders of all classes are equivalent: for an
\* identifier they build what the builder of the first class of
\* dlt645_read.py builds when called with that identifier and no payload.
C38_BuildersEquivalent ==
    (frame # NoFrame /\ req.data = <<>> /\ req.data_id # NoId) =>
        frame = FirstClassFrame

\* dlt645_read_1.py built the read request for the voltage of the meter
\* AAAAAAAAAAAA
C38_Witness ==
    /\ frame.status = "ok"
    /\ frame = FirstClassFrame
    /\ req.data_id = DI_VOLTAGE
    /\ req.control = CMD_READ_DATA
    /\ addr_in = BroadcastAddress

====
